---- MODULE Spec2Model ----
(***************************************************************************)
(* Verification model of the sculpt-3D mesh sculpting engine:              *)
(*   - subdivideGeometryLocally (adaptive subdivision, meshSubdivision.ts) *)
(*   - the symmetry expansion (mirrorPoints, hooks/useSculpting.ts)        *)
(*   - the stroke sample sculpt() (hooks/useSculpting.ts)                  *)
(*   - the version guarded geometry update (onGeometryUpdate)              *)
(*                                                                         *)
(* Numbers: the code computes in IEEE floats.  The model computes in fixed *)
(* point: the real number r is the integer r * Unit, every operation       *)
(* rounds to the nearest integer, symmetrically in the sign.               *)
(***************************************************************************)
EXTENDS Integers, Sequences, FiniteSets, TLC

\* ------------------------------------------------------------------------
\* Fixed point arithmetic and THREE.Vector3
\* ------------------------------------------------------------------------

\* 1.0 in fixed point
Unit == 10 * 100

Abs(a) == IF a < 0 THEN -a ELSE a

Sign(a) == IF a > 0 THEN 1 ELSE IF a < 0 THEN -1 ELSE 0

Min(a, b) == IF a < b THEN a ELSE b

\* a / b rounded to the nearest integer, half away from zero (b > 0)
RDiv(a, b) == IF a >= 0 THEN (2 * a + b) \div (2 * b) ELSE -((2 * (-a) + b) \div (2 * b))

\* a * b of two fixed point numbers
FMul(a, b) == RDiv(a * b, Unit)

RECURSIVE SqrtSearch(_, _, _)
SqrtSearch(n, lo, hi) ==
    IF lo >= hi THEN lo
    ELSE LET mid == (lo + hi + 1) \div 2
         IN  IF mid * mid <= n THEN SqrtSearch(n, mid, hi) ELSE SqrtSearch(n, lo, mid - 1)

\* Math.sqrt on integers, rounded to the nearest integer
ISqrt(n) ==
    LET r == SqrtSearch(n, 0, Min(n, 46000))
    IN  IF n - r * r > r THEN r + 1 ELSE r

Vec(x, y, z) == <<x, y, z>>

Zero3 == <<0, 0, 0>>

VAdd(a, b) == <<a[1] + b[1], a[2] + b[2], a[3] + b[3]>>

VSub(a, b) == <<a[1] - b[1], a[2] - b[2], a[3] - b[3]>>

VNeg(a) == <<-a[1], -a[2], -a[3]>>

\* Vector3.multiplyScalar with a fixed point scalar
VScale(a, s) == <<FMul(a[1], s), FMul(a[2], s), FMul(a[3], s)>>

\* Vector3.divideScalar with an integer count
VDivInt(a, n) == <<RDiv(a[1], n), RDiv(a[2], n), RDiv(a[3], n)>>

Dot(a, b) == a[1] * b[1] + a[2] * b[2] + a[3] * b[3]

Cross(a, b) ==
    <<a[2] * b[3] - a[3] * b[2], a[3] * b[1] - a[1] * b[3], a[1] * b[2] - a[2] * b[1]>>

LengthSq(a) == Dot(a, a)

\* Vector3.length
Length(a) == ISqrt(LengthSq(a))

\* Vector3.distanceTo
DistanceTo(a, b) == Length(VSub(a, b))

MaxAbs(a) ==
    LET m12 == IF Abs(a[1]) > Abs(a[2]) THEN Abs(a[1]) ELSE Abs(a[2])
    IN  IF m12 > Abs(a[3]) THEN m12 ELSE Abs(a[3])

\* Vector3.normalize: divideScalar(length() || 1).  Long vectors are scaled
\* down first so that the squares stay inside the integer range.
Normalize(a) ==
    LET q == (MaxAbs(a) \div (2 * Unit)) + 1
        s == IF q = 1 THEN a ELSE VDivInt(a, q)
        len == Length(s)
    IN  IF len = 0 THEN s
        ELSE <<RDiv(s[1] * Unit, len), RDiv(s[2] * Unit, len), RDiv(s[3] * Unit, len)>>

\* v1.clone().add(v2).multiplyScalar(0.5)
Midpoint(a, b) == VDivInt(VAdd(a, b), 2)

\* ------------------------------------------------------------------------
\* THREE.BufferGeometry: position attribute, index, normal attribute.
\* Vertex indices are 0-based as in the code; position[i + 1] is vertex i.
\* ------------------------------------------------------------------------

VertexCount(geo) == Len(geo.position)

TriangleCount(geo) == Len(geo.index) \div 3

Vtx(vertices, i) == vertices[i + 1]

\* indexArray[i], indexArray[i + 1], indexArray[i + 2] of triangle t (i = 3 t)
Tri(indexArray, t) == <<indexArray[3 * t + 1], indexArray[3 * t + 2], indexArray[3 * t + 3]>>

\* The triangles of an index array that contain vertex v, as a set
FacesOf(indexArray, v) ==
    {t \in 0..((Len(indexArray) \div 3) - 1) : v \in {Tri(indexArray, t)[k] : k \in 1..3}}

FaceCross(vertices, tri) ==
    Cross(VSub(Vtx(vertices, tri[3]), Vtx(vertices, tri[2])),
          VSub(Vtx(vertices, tri[1]), Vtx(vertices, tri[2])))

RECURSIVE SumCross(_, _, _)
SumCross(vertices, indexArray, faces) ==
    IF faces = {} THEN Zero3
    ELSE LET t == CHOOSE x \in faces : TRUE
         IN  VAdd(VDivInt(FaceCross(vertices, Tri(indexArray, t)), Unit),
                  SumCross(vertices, indexArray, faces \ {t}))

\* BufferGeometry.computeVertexNormals of an indexed geometry (three.js):
\* every vertex gets the normalized sum of the cross products of its faces.
computeVertexNormals(vertices, indexArray) ==
    [i \in 1..Len(vertices) |->
        Normalize(SumCross(vertices, indexArray, FacesOf(indexArray, i - 1)))]

\* new THREE.BufferGeometry() with setAttribute('position'), setIndex and
\* computeVertexNormals
Geometry(vertices, indexArray) ==
    [position |-> vertices, index |-> indexArray, hasIndex |-> TRUE,
     normal |-> computeVertexNormals(vertices, indexArray)]

\* "Get or create index": the index of a non-indexed geometry is the
\* sequential triples  for (i = 0; i < vertices.length - 2; i += 3)
SequentialIndex(n) == [k \in 1..(3 * (n \div 3)) |-> k - 1]

indexArrayOf(geo) ==
    IF geo.hasIndex THEN geo.index ELSE SequentialIndex(VertexCount(geo))

\* A geometry without index buffer (triangle soup)
SoupGeometry(vertices) ==
    [position |-> vertices, index |-> <<>>, hasIndex |-> FALSE,
     normal |-> computeVertexNormals(vertices, SequentialIndex(Len(vertices)))]

\* ------------------------------------------------------------------------
\* meshSubdivision.ts: subdivideGeometryLocally (adaptive version)
\* ------------------------------------------------------------------------

\* Iteration cap of the consistency propagation
MaxPropagationIterations == 5

\* 0.3, the tolerance band of the sphere test
SphereTolerance == (3 * Unit) \div 10

makeEdgeKey(i1, i2) == IF i1 < i2 THEN <<i1, i2>> ELSE <<i2, i1>>

\* The three edge keys of a triangle: edge01, edge12, edge20
EdgeKeys(tri) ==
    <<makeEdgeKey(tri[1], tri[2]), makeEdgeKey(tri[2], tri[3]), makeEdgeKey(tri[3], tri[1])>>

InSeq(seq, x) == \E k \in 1..Len(seq) : seq[k] = x

\* Set.add on an insertion ordered set
SetAdd(seq, x) == IF InSeq(seq, x) THEN seq ELSE Append(seq, x)

IndexOf(seq, x) == CHOOSE k \in 1..Len(seq) : seq[k] = x

\* Slot s = 3 t + e names edge e (0: 01, 1: 12, 2: 20) of triangle t
SlotKey(indexArray, s) == EdgeKeys(Tri(indexArray, s \div 3))[(s % 3) + 1]

AllEdgeKeys(indexArray) == {SlotKey(indexArray, s) : s \in 0..(Len(indexArray) - 1)}

\* edgeToTriangles: edge key -> the triangles pushed for it, in loop order
buildEdgeAdjacency(indexArray) ==
    [key \in AllEdgeKeys(indexArray) |->
        LET slots == SelectSeq([k \in 1..Len(indexArray) |-> k - 1],
                               LAMBDA s : SlotKey(indexArray, s) = key)
        IN  [k \in 1..Len(slots) |-> slots[k] \div 3]]

\* Variant of the marking test that ignores the brush sphere
EdgeNeedsSubdivisionByLengthOnly(v0, v1, point, radius, maxEdgeLength) ==
    DistanceTo(v0, v1) > maxEdgeLength

\* The marking test of one edge (STEP 1)
EdgeNeedsSubdivision(v0, v1, point, radius, maxEdgeLength) ==
    LET edgeLength == DistanceTo(v0, v1)
    IN  /\ edgeLength > maxEdgeLength
        /\ \/ DistanceTo(Midpoint(v0, v1), point) < radius
           \/ edgeLength > maxEdgeLength * 2

\* The elements of a sequence in the order of their first occurrence: what
\* adding them one by one to a Set leaves, in the Set's iteration order
InsertionOrder(seq) ==
    LET firsts == SelectSeq([k \in 1..Len(seq) |-> k],
                            LAMBDA k : \A j \in 1..(k - 1) : seq[j] # seq[k])
    IN  [i \in 1..Len(firsts) |-> seq[firsts[i]]]

\* First pass over the triangles, edges 01, 12, 20 of each: the edges added
\* to edgesToSubdivide, in the order they are added
MarkEdges(vertices, indexArray, point, radius, maxEdgeLength) ==
    LET Marks(s) ==
            LET tri == Tri(indexArray, s \div 3)
            IN  EdgeNeedsSubdivision(Vtx(vertices, tri[(s % 3) + 1]),
                                     Vtx(vertices, tri[((s + 1) % 3) + 1]),
                                     point, radius, maxEdgeLength)
        slots == SelectSeq([k \in 1..Len(indexArray) |-> k - 1], Marks)
    IN  InsertionOrder([i \in 1..Len(slots) |-> SlotKey(indexArray, slots[i])])

MarkedCount(edgesToSubdivide, keys) ==
    (IF InSeq(edgesToSubdivide, keys[1]) THEN 1 ELSE 0)
    + (IF InSeq(edgesToSubdivide, keys[2]) THEN 1 ELSE 0)
    + (IF InSeq(edgesToSubdivide, keys[3]) THEN 1 ELSE 0)

RECURSIVE VisitedTriangles(_, _, _, _)
\* The triIdx values of  for (const edge of edgesToSubdivide)
\*                         for (const triIdx of edgeToTriangles.get(edge) || [])
\* for the edges lo..hi, in loop order
VisitedTriangles(edgeToTriangles, edgesToSubdivide, lo, hi) ==
    IF lo > hi THEN <<>>
    ELSE IF lo = hi
         THEN IF edgesToSubdivide[lo] \in DOMAIN edgeToTriangles
              THEN edgeToTriangles[edgesToSubdivide[lo]] ELSE <<>>
         ELSE LET mid == (lo + hi) \div 2
              IN  VisitedTriangles(edgeToTriangles, edgesToSubdivide, lo, mid)
                  \o VisitedTriangles(edgeToTriangles, edgesToSubdivide, mid + 1, hi)

\* The edge a triangle with markedCount === 2 adds: its one unmarked edge
UnmarkedEdge(edgesToSubdivide, keys) ==
    keys[CHOOSE e \in 1..3 : ~InSeq(edgesToSubdivide, keys[e])]

\* edgesToAdd of one iteration of the propagation loop
edgesToAddOf(indexArray, edgeToTriangles, edgesToSubdivide) ==
    LET visited == VisitedTriangles(edgeToTriangles, edgesToSubdivide,
                                    1, Len(edgesToSubdivide))
        TwoMarked(triIdx) ==
            MarkedCount(edgesToSubdivide, EdgeKeys(Tri(indexArray, triIdx))) = 2
        hits == SelectSeq(visited, TwoMarked)
    IN  InsertionOrder([i \in 1..Len(hits) |->
            UnmarkedEdge(edgesToSubdivide, EdgeKeys(Tri(indexArray, hits[i])))])

RECURSIVE Propagate(_, _, _, _)
\* Second pass:  while (changed && iterations < 5)
Propagate(indexArray, edgeToTriangles, edgesToSubdivide, iterations) ==
    IF iterations >= MaxPropagationIterations THEN edgesToSubdivide
    ELSE LET edgesToAdd == edgesToAddOf(indexArray, edgeToTriangles, edgesToSubdivide)
         IN  IF edgesToAdd = <<>> THEN edgesToSubdivide
             ELSE Propagate(indexArray, edgeToTriangles,
                            edgesToSubdivide \o edgesToAdd, iterations + 1)

\* STEP 1 and the propagation: the marked edges in insertion order
edgesToSubdivideOf(vertices, indexArray, point, radius, maxEdgeLength) ==
    Propagate(indexArray, buildEdgeAdjacency(indexArray),
              MarkEdges(vertices, indexArray, point, radius, maxEdgeLength), 0)

\* STEP 2: the new vertex of a marked edge, projected to the sphere through
\* its end points when both are about equally far from the origin
EdgeMidpoint(v1, v2) ==
    LET midpoint == Midpoint(v1, v2)
        v1Length == Length(v1)
        v2Length == Length(v2)
        avgLength == RDiv(v1Length + v2Length, 2)
    IN  IF Abs(v1Length - avgLength) < SphereTolerance
           /\ Abs(v2Length - avgLength) < SphereTolerance
        THEN VScale(Normalize(midpoint), avgLength)
        ELSE midpoint

\* Variant of STEP 2 that creates the vertex of a marked edge once for each
\* of two triangles
newVerticesPerTriangle(vertices, edgesToSubdivide) ==
    vertices \o [k \in 1..(2 * Len(edgesToSubdivide)) |->
                    EdgeMidpoint(Vtx(vertices, edgesToSubdivide[(k + 1) \div 2][1]),
                                 Vtx(vertices, edgesToSubdivide[(k + 1) \div 2][2]))]

\* newVertices: the input vertices followed by one vertex per marked edge
newVerticesOf(vertices, edgesToSubdivide) ==
    vertices \o [k \in 1..Len(edgesToSubdivide) |->
                    EdgeMidpoint(Vtx(vertices, edgesToSubdivide[k][1]),
                                 Vtx(vertices, edgesToSubdivide[k][2]))]

\* edgeMidpoints.get(edge): the index of the vertex created for a marked edge
edgeMidpoints(nVertices, edgesToSubdivide, edge) ==
    nVertices + IndexOf(edgesToSubdivide, edge) - 1

\* pattern = (hasEdge01 ? 1 : 0) + (hasEdge12 ? 2 : 0) + (hasEdge20 ? 4 : 0)
PatternOf(edgesToSubdivide, keys) ==
    (IF InSeq(edgesToSubdivide, keys[1]) THEN 1 ELSE 0)
    + (IF InSeq(edgesToSubdivide, keys[2]) THEN 2 ELSE 0)
    + (IF InSeq(edgesToSubdivide, keys[3]) THEN 4 ELSE 0)

\* Variant of the switch that splits only the triangles whose three edges are
\* marked and keeps every other triangle whole
SubdivideTriangleFullOnly(tri, nVertices, edgesToSubdivide) ==
    LET keys == EdgeKeys(tri)
        m01 == edgeMidpoints(nVertices, edgesToSubdivide, keys[1])
        m12 == edgeMidpoints(nVertices, edgesToSubdivide, keys[2])
        m20 == edgeMidpoints(nVertices, edgesToSubdivide, keys[3])
    IN  IF PatternOf(edgesToSubdivide, keys) = 7
        THEN <<tri[1], m01, m20,  tri[2], m12, m01,  tri[3], m20, m12,  m01, m12, m20>>
        ELSE tri

\* Variant of the switch whose case 5 lists its last triangle the other way
\* round
SubdivideTriangleCase5Reversed(tri, nVertices, edgesToSubdivide) ==
    LET i0 == tri[1]
        i1 == tri[2]
        i2 == tri[3]
        keys == EdgeKeys(tri)
        pattern == PatternOf(edgesToSubdivide, keys)
        m01 == edgeMidpoints(nVertices, edgesToSubdivide, keys[1])
        m12 == edgeMidpoints(nVertices, edgesToSubdivide, keys[2])
        m20 == edgeMidpoints(nVertices, edgesToSubdivide, keys[3])
    IN  CASE pattern = 0 -> <<i0, i1, i2>>
          [] pattern = 1 -> <<i0, m01, i2,  m01, i1, i2>>
          [] pattern = 2 -> <<i0, i1, m12,  i0, m12, i2>>
          [] pattern = 3 -> <<i0, m01, i2,  m01, i1, m12,  m01, m12, i2>>
          [] pattern = 4 -> <<i0, i1, m20,  i1, i2, m20>>
          [] pattern = 5 -> <<i0, m01, m20,  m01, i1, i2,  m01, m20, i2>>
          [] pattern = 6 -> <<i0, i1, m12,  i0, m12, m20,  m20, m12, i2>>
          [] pattern = 7 -> <<i0, m01, m20,  i1, m12, m01,  i2, m20, m12,  m01, m12, m20>>

\* STEP 3: the triangles that replace one triangle (the switch on pattern)
SubdivideTriangle(tri, nVertices, edgesToSubdivide) ==
    LET i0 == tri[1]
        i1 == tri[2]
        i2 == tri[3]
        keys == EdgeKeys(tri)
        pattern == PatternOf(edgesToSubdivide, keys)
        m01 == edgeMidpoints(nVertices, edgesToSubdivide, keys[1])
        m12 == edgeMidpoints(nVertices, edgesToSubdivide, keys[2])
        m20 == edgeMidpoints(nVertices, edgesToSubdivide, keys[3])
    IN  CASE pattern = 0 -> <<i0, i1, i2>>
          [] pattern = 1 -> <<i0, m01, i2,  m01, i1, i2>>
          [] pattern = 2 -> <<i0, i1, m12,  i0, m12, i2>>
          [] pattern = 3 -> <<i0, m01, i2,  m01, i1, m12,  m01, m12, i2>>
          [] pattern = 4 -> <<i0, i1, m20,  i1, i2, m20>>
          [] pattern = 5 -> <<i0, m01, m20,  m01, i1, i2,  m20, m01, i2>>
          [] pattern = 6 -> <<i0, i1, m12,  i0, m12, m20,  m20, m12, i2>>
          [] pattern = 7 -> <<i0, m01, m20,  i1, m12, m01,  i2, m20, m12,  m01, m12, m20>>

RECURSIVE newIndicesOf(_, _, _, _, _)
\* newIndices: the replacements of the triangles lo..hi, in triangle order
newIndicesOf(indexArray, nVertices, edgesToSubdivide, lo, hi) ==
    IF lo > hi THEN <<>>
    ELSE IF lo = hi
         THEN SubdivideTriangle(Tri(indexArray, lo), nVertices, edgesToSubdivide)
         ELSE LET mid == (lo + hi) \div 2
              IN  newIndicesOf(indexArray, nVertices, edgesToSubdivide, lo, mid)
                  \o newIndicesOf(indexArray, nVertices, edgesToSubdivide, mid + 1, hi)

\* Variant that returns an empty geometry when no edge is marked
subdivideGeometryEmptyWhenUnmarked(geometry, point, radius, maxEdgeLength) ==
    LET vertices == geometry.position
        indexArray == indexArrayOf(geometry)
        marked == edgesToSubdivideOf(vertices, indexArray, point, radius, maxEdgeLength)
    IN  IF marked = <<>> THEN Geometry(<<>>, <<>>)
        ELSE Geometry(newVerticesOf(vertices, marked),
                      newIndicesOf(indexArray, Len(vertices), marked,
                                   0, (Len(indexArray) \div 3) - 1))

\* Variant whose index array ends with the first corner of one more triangle
subdivideGeometryWithOpenTriangle(geometry, point, radius, maxEdgeLength) ==
    LET vertices == geometry.position
        indexArray == indexArrayOf(geometry)
        marked == edgesToSubdivideOf(vertices, indexArray, point, radius, maxEdgeLength)
    IN  Geometry(newVerticesOf(vertices, marked),
                 newIndicesOf(indexArray, Len(vertices), marked,
                              0, (Len(indexArray) \div 3) - 1) \o <<0>>)

\* subdivideGeometryLocally(geometry, point, radius, maxEdgeLength): a new
\* geometry; the argument is only read (the code works on a clone)
subdivideGeometryLocally(geometry, point, radius, maxEdgeLength) ==
    LET vertices == geometry.position
        indexArray == indexArrayOf(geometry)
        marked == edgesToSubdivideOf(vertices, indexArray, point, radius, maxEdgeLength)
    IN  Geometry(newVerticesOf(vertices, marked),
                 newIndicesOf(indexArray, Len(vertices), marked,
                              0, (Len(indexArray) \div 3) - 1))

\* Variant of the call that works on its argument: the input object holds
\* the result afterwards
subdivideGeometryInPlace(objects, geometry, point, radius, maxEdgeLength) ==
    [objects |-> [objects EXCEPT ![geometry] =
                     subdivideGeometryLocally(objects[geometry], point, radius,
                                              maxEdgeLength)],
     result |-> geometry]

\* The call on the geometry objects of the heap, an object being its index
\* in objects: geometry.clone() and new THREE.BufferGeometry() are new
\* objects, the second one is returned
subdivideGeometryOnHeap(objects, geometry, point, radius, maxEdgeLength) ==
    LET workingGeometry == objects[geometry]
        newGeometry == subdivideGeometryLocally(workingGeometry, point, radius,
                                                maxEdgeLength)
    IN  [objects |-> objects \o <<workingGeometry, newGeometry>>,
         result |-> Len(objects) + 2]

\* ------------------------------------------------------------------------
\* hooks/useSculpting.ts: the stroke sample sculpt()
\* ------------------------------------------------------------------------

\* ToolType values; 'add', 'subtract' and 'push' are the sculpt tools
ToolTypes == {"select", "add", "subtract", "push"}

isSculptModeOf(currentTool) == currentTool \in {"add", "subtract", "push"}

\* Subdivision throttle in milliseconds
SubdivisionThrottleMs == 100

\* pushToolLastPoint.current === null
NoPoint == <<>>

\* mesh.matrixWorld is a translation by the vector matrixWorld:
\* vertex.applyMatrix4(mesh.matrixWorld) and its inverse
ToWorld(matrixWorld, v) == VAdd(v, matrixWorld)

ToLocal(matrixWorld, v) == VSub(v, matrixWorld)

\* raycaster.intersectObject(mesh): the pointer is off the mesh ("miss"), on
\* vertex 0 ("vertex") or on the centre of triangle 0 ("face").  Returns
\* intersects[0] as [point, face normal] in a sequence, or the empty sequence.
HitFace(geometry, mousePosition) ==
    LET indexArray == indexArrayOf(geometry)
    IN  IF mousePosition = "face" THEN 0
        ELSE CHOOSE t \in FacesOf(indexArray, 0) : \A u \in FacesOf(indexArray, 0) : t <= u

intersectObject(geometry, matrixWorld, mousePosition) ==
    IF mousePosition = "miss" \/ TriangleCount([index |-> indexArrayOf(geometry)]) = 0
    THEN <<>>
    ELSE LET vertices == geometry.position
             tri == Tri(indexArrayOf(geometry), HitFace(geometry, mousePosition))
             local == IF mousePosition = "vertex" THEN Vtx(vertices, 0)
                      ELSE VDivInt(VAdd(VAdd(Vtx(vertices, tri[1]), Vtx(vertices, tri[2])),
                                        Vtx(vertices, tri[3])), 3)
         IN  <<[point |-> ToWorld(matrixWorld, local),
                normal |-> Normalize(VDivInt(FaceCross(vertices, tri), Unit))]>>

\* The same positions and index with normals recomputed: positions written
\* in place followed by geometry.computeVertexNormals()
WithPositions(geometry, vertices) ==
    [position |-> vertices, index |-> geometry.index, hasIndex |-> geometry.hasIndex,
     normal |-> computeVertexNormals(vertices, indexArrayOf(geometry))]

\* "Calculate average normal": the face normal plus the normals of the
\* vertices closer than brushSize * 0.5, divided by their number, normalized
RECURSIVE SumNormals(_, _, _, _)
\* The sum of the normals of the vertices lo..hi that are in near
SumNormals(normals, near, lo, hi) ==
    IF lo > hi THEN Zero3
    ELSE IF lo = hi
         THEN IF lo \in near THEN Normalize(normals[lo]) ELSE Zero3
         ELSE LET mid == (lo + hi) \div 2
              IN  VAdd(SumNormals(normals, near, lo, mid),
                       SumNormals(normals, near, mid + 1, hi))

avgNormalOf(geometry, matrixWorld, point, faceNormal, brushSize) ==
    LET near == {i \in 1..VertexCount(geometry) :
                    DistanceTo(ToWorld(matrixWorld, geometry.position[i]), point)
                        < RDiv(brushSize, 2)}
        sum == VAdd(Normalize(faceNormal),
                    SumNormals(geometry.normal, near, 1, VertexCount(geometry)))
    IN  IF Cardinality(near) > 0 THEN Normalize(VDivInt(sum, Cardinality(near)))
        ELSE Normalize(faceNormal)

\* Variant of the falloff that grows with the distance
FalloffInverted(distance, brushSize) == RDiv(distance * Unit, brushSize)

\* falloff = 1 - (distance / brushSize)
Falloff(distance, brushSize) == Unit - RDiv(distance * Unit, brushSize)

\* strength = brushStrength * falloff * falloff * 0.1
Strength(brushStrength, falloff) == RDiv(FMul(FMul(brushStrength, falloff), falloff), 10)

\* direction.length() < 0.001: the push tool skips a drag this short
PushMinMove == Unit \div 1000

\* Variant of the loop body in which the push tool without a previous point
\* falls through to the direction of the other tools
DeformVertexPushAlongNormal(vertex, matrixWorld, point, avgNormal, currentTool, brushSize, brushStrength, lastPoint, shift) ==
    LET world == ToWorld(matrixWorld, vertex)
        distance == DistanceTo(world, point)
        strength == Strength(brushStrength, Falloff(distance, brushSize))
        drag == VSub(point, lastPoint)
        pushMultiplier == FMul(strength, Min(DistanceTo(point, lastPoint) * 10, 2 * Unit))
    IN  IF ~(distance < brushSize) THEN vertex
        ELSE IF currentTool = "push" /\ lastPoint # NoPoint
             THEN IF Length(drag) < PushMinMove THEN vertex
                  ELSE ToLocal(matrixWorld,
                          VAdd(world, VScale(Normalize(drag),
                                             IF shift THEN -pushMultiplier ELSE pushMultiplier)))
             ELSE ToLocal(matrixWorld,
                     VAdd(world, VScale(avgNormal, IF shift THEN -strength ELSE strength)))

\* Variant of the loop body in which the push tool does not look at the
\* shift key
DeformVertexPushIgnoresShift(vertex, matrixWorld, point, avgNormal, currentTool, brushSize, brushStrength, lastPoint, shift) ==
    LET world == ToWorld(matrixWorld, vertex)
        distance == DistanceTo(world, point)
        strength == Strength(brushStrength, Falloff(distance, brushSize))
        drag == VSub(point, lastPoint)
        pushMultiplier == FMul(strength, Min(DistanceTo(point, lastPoint) * 10, 2 * Unit))
        toolMultiplier == IF currentTool = "subtract" THEN -strength ELSE strength
    IN  IF ~(distance < brushSize) THEN vertex
        ELSE IF currentTool = "push"
             THEN IF lastPoint = NoPoint THEN vertex
                  ELSE IF Length(drag) < PushMinMove THEN vertex
                  ELSE ToLocal(matrixWorld,
                          VAdd(world, VScale(Normalize(drag), pushMultiplier)))
             ELSE ToLocal(matrixWorld,
                     VAdd(world, VScale(avgNormal,
                                        IF shift THEN -toolMultiplier ELSE toolMultiplier)))

\* The body of the deformation loop for one vertex: its new local position
DeformVertex(vertex, matrixWorld, point, avgNormal, currentTool, brushSize, brushStrength, lastPoint, shift) ==
    LET world == ToWorld(matrixWorld, vertex)
        distance == DistanceTo(world, point)
        strength == Strength(brushStrength, Falloff(distance, brushSize))
        drag == VSub(point, lastPoint)
        pushMultiplier == FMul(strength, Min(DistanceTo(point, lastPoint) * 10, 2 * Unit))
        toolMultiplier == IF currentTool = "subtract" THEN -strength ELSE strength
    IN  IF ~(distance < brushSize) THEN vertex
        ELSE IF currentTool = "push"
             THEN IF lastPoint = NoPoint THEN vertex
                  ELSE IF Length(drag) < PushMinMove THEN vertex
                  ELSE ToLocal(matrixWorld,
                          VAdd(world, VScale(Normalize(drag),
                                             IF shift THEN -pushMultiplier ELSE pushMultiplier)))
             ELSE ToLocal(matrixWorld,
                     VAdd(world, VScale(avgNormal,
                                        IF shift THEN -toolMultiplier ELSE toolMultiplier)))

\* modified = true is reached for vertex i: it is inside the brush and the
\* push tool did not skip it
VertexModified(vertex, matrixWorld, point, currentTool, brushSize, lastPoint) ==
    /\ DistanceTo(ToWorld(matrixWorld, vertex), point) < brushSize
    /\ currentTool = "push" =>
         /\ lastPoint # NoPoint
         /\ ~(Length(VSub(point, lastPoint)) < PushMinMove)

\* ------------------------------------------------------------------------
\* hooks/useSculpting.ts: the mirror points of a stroke sample
\* ------------------------------------------------------------------------

\* Variant of the entry that takes up the geometry from before the last
\* subdivision
geometryBeforeSubdivision(current, beforeSubdivision) == beforeSubdivision

\* let geometry = mesh.geometry: the sample works on the geometry the mesh
\* holds now, not on the one an earlier sample subdivided
geometryOfMesh(current, beforeSubdivision) == current

\* Variant of the adoption that keeps deforming the geometry the sample
\* started with
geometryKeptAfterSubdivision(geometry, subdividedGeo) == geometry

\* geometry after the subdivision phase: the subdivided geometry is adopted
\* if it has more vertices
geometryAfterSubdivision(geometry, subdividedGeo) ==
    IF VertexCount(subdividedGeo) > VertexCount(geometry) THEN subdividedGeo ELSE geometry

\* new THREE.Vector3(-v.x, v.y, v.z) and the like: v with the coordinates of
\* the flagged axes negated
Mirror(v, mx, my, mz) ==
    <<IF mx THEN -v[1] ELSE v[1], IF my THEN -v[2] ELSE v[2], IF mz THEN -v[3] ELSE v[3]>>

MirrorEntry(localPoint, localNormal, mx, my, mz) ==
    [point |-> Mirror(localPoint, mx, my, mz), normal |-> Mirror(localNormal, mx, my, mz)]

\* Variant of the list without the entry for all three axes
mirrorCombinationsWithoutTriple(localPoint, localNormal, symmetryAxes) ==
    (IF symmetryAxes.x THEN <<MirrorEntry(localPoint, localNormal, TRUE, FALSE, FALSE)>>
     ELSE <<>>)
    \o (IF symmetryAxes.y THEN <<MirrorEntry(localPoint, localNormal, FALSE, TRUE, FALSE)>>
        ELSE <<>>)
    \o (IF symmetryAxes.z THEN <<MirrorEntry(localPoint, localNormal, FALSE, FALSE, TRUE)>>
        ELSE <<>>)
    \o (IF symmetryAxes.x /\ symmetryAxes.y
        THEN <<MirrorEntry(localPoint, localNormal, TRUE, TRUE, FALSE)>> ELSE <<>>)
    \o (IF symmetryAxes.x /\ symmetryAxes.z
        THEN <<MirrorEntry(localPoint, localNormal, TRUE, FALSE, TRUE)>> ELSE <<>>)
    \o (IF symmetryAxes.y /\ symmetryAxes.z
        THEN <<MirrorEntry(localPoint, localNormal, FALSE, TRUE, TRUE)>> ELSE <<>>)

\* mirrorCombinations: the pushes of the seven if statements, in their order
mirrorCombinationsOf(localPoint, localNormal, symmetryAxes) ==
    (IF symmetryAxes.x THEN <<MirrorEntry(localPoint, localNormal, TRUE, FALSE, FALSE)>>
     ELSE <<>>)
    \o (IF symmetryAxes.y THEN <<MirrorEntry(localPoint, localNormal, FALSE, TRUE, FALSE)>>
        ELSE <<>>)
    \o (IF symmetryAxes.z THEN <<MirrorEntry(localPoint, localNormal, FALSE, FALSE, TRUE)>>
        ELSE <<>>)
    \o (IF symmetryAxes.x /\ symmetryAxes.y
        THEN <<MirrorEntry(localPoint, localNormal, TRUE, TRUE, FALSE)>> ELSE <<>>)
    \o (IF symmetryAxes.x /\ symmetryAxes.z
        THEN <<MirrorEntry(localPoint, localNormal, TRUE, FALSE, TRUE)>> ELSE <<>>)
    \o (IF symmetryAxes.y /\ symmetryAxes.z
        THEN <<MirrorEntry(localPoint, localNormal, FALSE, TRUE, TRUE)>> ELSE <<>>)
    \o (IF symmetryAxes.x /\ symmetryAxes.y /\ symmetryAxes.z
        THEN <<MirrorEntry(localPoint, localNormal, TRUE, TRUE, TRUE)>> ELSE <<>>)

\* Variant that mirrors the world coordinates of the point
mirrorPointsInWorldSpace(point, avgNormal, symmetryAxes, meshMatrixWorld) ==
    LET mirrors == mirrorCombinationsOf(point, Normalize(avgNormal), symmetryAxes)
    IN  <<[point |-> point, normal |-> avgNormal]>>
        \o [k \in 1..Len(mirrors) |->
               [point |-> mirrors[k].point, normal |-> Normalize(mirrors[k].normal)]]

\* mirrorPoints: the original pair, then the mirrors built in the local
\* space of the mesh and converted back to world space.  The normal matrix
\* of a translation is the identity.
mirrorPointsOf(point, avgNormal, symmetryAxes, meshMatrixWorld) ==
    LET localPoint == ToLocal(meshMatrixWorld, point)
        localNormal == Normalize(avgNormal)
        mirrors == IF symmetryAxes.x \/ symmetryAxes.y \/ symmetryAxes.z
                   THEN mirrorCombinationsOf(localPoint, localNormal, symmetryAxes)
                   ELSE <<>>
    IN  <<[point |-> point, normal |-> avgNormal]>>
        \o [k \in 1..Len(mirrors) |->
               [point |-> ToWorld(meshMatrixWorld, mirrors[k].point),
                normal |-> Normalize(mirrors[k].normal)]]

\* ------------------------------------------------------------------------
\* hooks/useSculpting.ts: the deformation for each mirror point
\* ------------------------------------------------------------------------

\* strength = brushStrength * falloff * falloff * 0.2
StrengthWithSymmetry(brushStrength, falloff) ==
    RDiv(FMul(FMul(brushStrength, falloff), falloff), 5)

\* "Mirror the movement direction in local space": the movement is taken to
\* local space with applyMatrix4(invMatrix), a coordinate is negated if its
\* axis is active and the signs of the original and the mirror point differ
\* on it, and the result is taken back with applyMatrix4(matrixWorld)
MirroredMovement(meshMatrixWorld, point, lastPoint, mirrorPoint, symmetryAxes) ==
    LET originalMovement == VSub(point, lastPoint)
        localMovement == ToLocal(meshMatrixWorld, originalMovement)
        localOriginal == ToLocal(meshMatrixWorld, point)
        localMirror == ToLocal(meshMatrixWorld, mirrorPoint)
        mirrored ==
            <<IF symmetryAxes.x /\ Sign(localOriginal[1]) # Sign(localMirror[1])
              THEN -localMovement[1] ELSE localMovement[1],
              IF symmetryAxes.y /\ Sign(localOriginal[2]) # Sign(localMirror[2])
              THEN -localMovement[2] ELSE localMovement[2],
              IF symmetryAxes.z /\ Sign(localOriginal[3]) # Sign(localMirror[3])
              THEN -localMovement[3] ELSE localMovement[3]>>
    IN  ToWorld(meshMatrixWorld, mirrored)

\* The body of the inner loop for one vertex and one mirror point
DeformVertexForMirror(vertex, meshMatrixWorld, point, mirrorData, isOriginal, tool, brushSize, brushStrength, lastPoint, shift, symmetryAxes) ==
    LET world == ToWorld(meshMatrixWorld, vertex)
        distance == DistanceTo(world, mirrorData.point)
        strength == StrengthWithSymmetry(brushStrength, Falloff(distance, brushSize))
        direction == IF isOriginal THEN VSub(mirrorData.point, lastPoint)
                     ELSE MirroredMovement(meshMatrixWorld, point, lastPoint,
                                           mirrorData.point, symmetryAxes)
        pushMultiplier == FMul(strength, Min(DistanceTo(point, lastPoint) * 25, 5 * Unit))
        toolMultiplier == IF tool = "subtract" THEN -strength ELSE strength
    IN  IF ~(distance < brushSize) THEN vertex
        ELSE IF tool = "push"
             THEN IF lastPoint = NoPoint THEN vertex
                  ELSE IF Length(direction) < PushMinMove THEN vertex
                  ELSE ToLocal(meshMatrixWorld,
                          VAdd(world, VScale(Normalize(direction),
                                             IF shift THEN -pushMultiplier ELSE pushMultiplier)))
             ELSE ToLocal(meshMatrixWorld,
                     VAdd(world, VScale(mirrorData.normal,
                                        IF shift THEN -toolMultiplier ELSE toolMultiplier)))

RECURSIVE DeformVertexForMirrors(_, _, _, _, _, _, _, _, _, _, _)
\* The position of a vertex after the passes of the first k mirror points;
\* each pass reads the position the passes before it wrote
DeformVertexForMirrors(vertex, meshMatrixWorld, point, mirrorPoints, k, tool, brushSize, brushStrength, lastPoint, shift, symmetryAxes) ==
    IF k = 0 THEN vertex
    ELSE DeformVertexForMirror(
             DeformVertexForMirrors(vertex, meshMatrixWorld, point, mirrorPoints, k - 1, tool,
                                    brushSize, brushStrength, lastPoint, shift, symmetryAxes),
             meshMatrixWorld, point, mirrorPoints[k], k = 1, tool, brushSize, brushStrength,
             lastPoint, shift, symmetryAxes)

RECURSIVE VertexModifiedForMirrors(_, _, _, _, _, _, _, _, _, _, _)
\* modified = true is reached for a vertex in one of the first k passes
VertexModifiedForMirrors(vertex, meshMatrixWorld, point, mirrorPoints, k, tool, brushSize, brushStrength, lastPoint, shift, symmetryAxes) ==
    IF k = 0 THEN FALSE
    ELSE \/ VertexModifiedForMirrors(vertex, meshMatrixWorld, point, mirrorPoints, k - 1, tool,
                                     brushSize, brushStrength, lastPoint, shift, symmetryAxes)
         \/ LET before == DeformVertexForMirrors(vertex, meshMatrixWorld, point, mirrorPoints,
                              k - 1, tool, brushSize, brushStrength, lastPoint, shift,
                              symmetryAxes)
                direction == IF k = 1 THEN VSub(point, lastPoint)
                             ELSE MirroredMovement(meshMatrixWorld, point, lastPoint,
                                                   mirrorPoints[k].point, symmetryAxes)
            IN  /\ DistanceTo(ToWorld(meshMatrixWorld, before), mirrorPoints[k].point)
                      < brushSize
                /\ tool = "push" =>
                      /\ lastPoint # NoPoint
                      /\ ~(Length(direction) < PushMinMove)

\* ------------------------------------------------------------------------
\* The stroke of the sculpting engine and the version guard of the mesh
\* ------------------------------------------------------------------------

\* applySculptingStroke without cloneGeometry: the deformation of the working
\* geometry (the input, or its subdivision when that added vertices), written
\* into the position attribute of that geometry
applySculptingStroke(working, meshMatrixWorld, point, avgNormal, modified, tool, brushSize, brushStrength, previousPoint, invert) ==
    LET positionsArray ==
            [i \in 1..VertexCount(working) |->
                DeformVertex(working.position[i], meshMatrixWorld, point, avgNormal, tool,
                             brushSize, brushStrength, previousPoint, invert)]
    IN  IF modified THEN WithPositions(working, positionsArray)
        ELSE [working EXCEPT !.position = positionsArray]

\* Variant of the callback that counts a rejected result as a version too
onGeometryUpdateCountingRejected(currentRef, currentVersion, newGeometry, startingVersion) ==
    IF currentVersion # startingVersion
    THEN [accepted |-> FALSE, geometryRef |-> currentRef,
          geometryVersionRef |-> currentVersion + 1]
    ELSE [accepted |-> TRUE, geometryRef |-> newGeometry,
          geometryVersionRef |-> currentVersion + 1]

\* Variant of the callback that accepts every result
onGeometryUpdateWithoutGuard(currentRef, currentVersion, newGeometry, startingVersion) ==
    [accepted |-> TRUE, geometryRef |-> newGeometry, geometryVersionRef |-> currentVersion + 1]

\* onGeometryUpdate: the result of a sample is taken as the current mesh only
\* if the version is still the one the sample started from
onGeometryUpdate(currentRef, currentVersion, newGeometry, startingVersion) ==
    IF currentVersion # startingVersion
    THEN [accepted |-> FALSE, geometryRef |-> currentRef, geometryVersionRef |-> currentVersion]
    ELSE [accepted |-> TRUE, geometryRef |-> newGeometry,
          geometryVersionRef |-> currentVersion + 1]

\* ------------------------------------------------------------------------
\* State
\* ------------------------------------------------------------------------

VARIABLES
    subInput,      \* the geometry passed to the last subdivideGeometryLocally call
    subArgs,       \* its point, radius and maxEdgeLength
    subOutput,     \* the geometry it returned (the caller's current geometry)
    subCalls,      \* number of calls made so far
    subPrev,       \* the arguments of the call before the last one, if any
    meshGeometry,  \* meshRef.current.geometry
    matrixWorld,   \* meshRef.current.matrixWorld (a translation)
    currentTool,   \* prop currentTool
    isSelected,    \* prop isSelected
    brushSize,     \* prop brushSize
    brushStrength, \* prop brushStrength
    isProcessing,  \* isProcessing.current
    lastSubdivisionTime, \* lastSubdivisionTime.current
    now,           \* Date.now()
    pushToolLastPoint,   \* pushToolLastPoint.current, NoPoint for null
    isShiftPressed,      \* isShiftPressed.current
    mousePosition,       \* mousePosition.current, by what the ray through it hits
    lastSample,    \* the last sculpt() call: what it read on entry
    strokeGeometry, \* its local geometry when the deformation phase began
    strokeNormal,  \* its avgNormal
    lastModified,  \* its return value
    samples,       \* number of sculpt() calls made so far
    symmetryAxes,  \* prop symmetryAxes
    mirrorInput,   \* the point and avgNormal the mirror points were built from
    mirrorPoints,  \* the mirrorPoints list built last
    mirrorCalls,   \* number of times it was built
    arena,         \* the geometry objects created so far; an object is its index
    geometryRef,   \* geometryRef: the object that is the current mesh
    geometryVersionRef, \* geometryVersionRef.current
    frames,        \* the stroke samples in progress, one per frame callback
    isMouseDown,   \* state isMouseDown of the scene object
    isHovering,    \* state isHovering
    hoverPointRef, \* hoverPointRef.current, NoPoint for null
    strokeSamples, \* sculpt() calls made since the button last went down
    buttonHeld,  \* the left mouse button is physically down
    history,       \* history.current: the saved scene states
    currentIndexRef, \* currentIndexRef.current
    sceneState,    \* objects, objectGeometries and selectedObjectId of the scene
    lastOperation, \* the function of the undo hook called last
    restored,      \* the last call passed a saved state to setObjects
    operations     \* calls and scene edits so far

subVars == <<subInput, subArgs, subOutput, subCalls, subPrev>>

sculptVars ==
    <<meshGeometry, matrixWorld, currentTool, isSelected, brushSize, brushStrength,
      isProcessing, lastSubdivisionTime, now, pushToolLastPoint, isShiftPressed,
      mousePosition, lastSample, strokeGeometry, strokeNormal, lastModified, samples>>

mirrorVars == <<symmetryAxes, mirrorInput, mirrorPoints, mirrorCalls>>

versionVars == <<arena, geometryRef, geometryVersionRef, frames>>

pointerVars == <<isMouseDown, isHovering, hoverPointRef, strokeSamples, buttonHeld>>

undoVars == <<history, currentIndexRef, sceneState, lastOperation, restored, operations>>

vars ==
    <<subInput, subArgs, subOutput, subCalls, subPrev,
      meshGeometry, matrixWorld, currentTool, isSelected, brushSize, brushStrength,
      isProcessing, lastSubdivisionTime, now, pushToolLastPoint, isShiftPressed,
      mousePosition, lastSample, strokeGeometry, strokeNormal, lastModified, samples,
      symmetryAxes, mirrorInput, mirrorPoints, mirrorCalls,
      arena, geometryRef, geometryVersionRef, frames,
      isMouseDown, isHovering, hoverPointRef, strokeSamples, buttonHeld,
      history, currentIndexRef, sceneState, lastOperation, restored, operations>>

\* ------------------------------------------------------------------------
\* Input geometries
\* ------------------------------------------------------------------------

\* Regular tetrahedron, all vertices at distance sqrt(3) from the origin
Tetrahedron ==
    Geometry(<<Vec(Unit, Unit, Unit), Vec(Unit, -Unit, -Unit),
               Vec(-Unit, Unit, -Unit), Vec(-Unit, -Unit, Unit)>>,
             <<0, 1, 2,  0, 3, 1,  0, 2, 3,  1, 3, 2>>)

\* Octahedron of radius 1 (the coarsest sphere)
Octahedron ==
    Geometry(<<Vec(Unit, 0, 0), Vec(-Unit, 0, 0), Vec(0, Unit, 0),
               Vec(0, -Unit, 0), Vec(0, 0, Unit), Vec(0, 0, -Unit)>>,
             <<0, 2, 4,  2, 1, 4,  1, 3, 4,  3, 0, 4,
               2, 0, 5,  1, 2, 5,  3, 1, 5,  0, 3, 5>>)

\* A closed wedge (four vertices, four triangles) with one long edge
Wedge ==
    Geometry(<<Vec(2 * Unit, 0, 0), Vec(0, Unit, 0), Vec(-2 * Unit, 0, 0), Vec(0, -Unit, Unit)>>,
             <<0, 1, 2,  0, 2, 3,  0, 3, 1,  1, 3, 2>>)

\* Two triangles without index buffer that meet along a seam of duplicated
\* vertices (a0 = b0, a1 = b1), as the faces of a non-indexed primitive do
SeamSoup ==
    SoupGeometry(<<Vec(0, 0, 0), Vec(2 * Unit, 0, 0), Vec(Unit, 3 * Unit, 0),
                   Vec(0, 0, 0), Vec(Unit, -Unit, 0), Vec(2 * Unit, 0, 0)>>)

\* An open strip of three triangles in the plane z = 0
Strip ==
    Geometry(<<Vec(Unit, 0, 0), Vec(3 * Unit, 0, 0), Vec(5 * Unit, 0, 0),
               Vec(2 * Unit, Unit, 0), Vec(4 * Unit, Unit, 0)>>,
             <<0, 1, 3,  1, 4, 3,  1, 2, 4>>)

\* An open zigzag ribbon of six triangles in the plane z = 0: the edges
\* along its two sides are 1.5 long (2.1 the first one), the edges across it
\* 0.85, except the first one with 1.41
Ribbon ==
    Geometry(<<Vec(-3600, 0, 0), Vec(-1500, 0, 0), Vec(0, 0, 0), Vec(1500, 0, 0),
               Vec(-2250, 400, 0), Vec(-750, 400, 0), Vec(750, 400, 0),
               Vec(2250, 400, 0)>>,
             <<0, 1, 4,  1, 5, 4,  1, 2, 5,  2, 6, 5,  2, 3, 6,  3, 7, 6>>)

\* The ribbon with the corners of its last triangle listed from the second
\* and from the third one on
RibbonFromSecond == Geometry(Ribbon.position, [Ribbon.index EXCEPT ![16] = 7, ![17] = 6, ![18] = 3])

RibbonFromThird == Geometry(Ribbon.position, [Ribbon.index EXCEPT ![16] = 6, ![17] = 3, ![18] = 7])

InputGeometries == {Tetrahedron, Octahedron, Wedge, SeamSoup}

SubdividePoints == {Vec(0, 0, 0), Vec(Unit, Unit, Unit)}

SubdivideRadii == {(4 * Unit) \div 5, 3 * Unit}

SubdivideMaxEdges == {Unit, (3 * Unit) \div 2, 3 * Unit}

\* Calls of subdivideGeometryLocally in one behaviour
MaxSubdivideCalls == 2

\* Largest geometry that is subdivided again
MaxSubdivideVertices == 10

\* ------------------------------------------------------------------------
\* Specification of the subdivider alone: the caller keeps the returned
\* geometry and subdivides it again
\* ------------------------------------------------------------------------

\* subdividedGeo.getAttribute('position').count > geometry.getAttribute('position').count
Grew(input, output) == VertexCount(output) > VertexCount(input)

\* No subdivideGeometryLocally call made yet on geometry
SubStart(geometry) ==
    /\ subInput = geometry
    /\ subOutput = geometry
    /\ subArgs = [point |-> Zero3, radius |-> 0, maxEdgeLength |-> 0]
    /\ subCalls = 0
    /\ subPrev = <<>>

\* lastSample before the first sculpt() call, and the shape of the record
NoSample ==
    [entered |-> FALSE, hit |-> FALSE, point |-> Zero3, normal |-> Zero3,
     tool |-> "select", shift |-> FALSE, previous |-> NoPoint, shouldSubdivide |-> FALSE]

\* A hook instance on geometry with its refs as useRef initialises them
SculptStart(geometry) ==
    /\ meshGeometry = geometry
    /\ isProcessing = FALSE
    /\ lastSubdivisionTime = 0
    /\ pushToolLastPoint = NoPoint
    /\ isShiftPressed = FALSE
    /\ lastSample = NoSample
    /\ strokeGeometry = geometry
    /\ strokeNormal = Zero3
    /\ lastModified = FALSE
    /\ samples = 0

\* No mesh is being sculpted
SculptUnused ==
    /\ SculptStart(Geometry(<<>>, <<>>))
    /\ matrixWorld = Zero3
    /\ currentTool = "select"
    /\ isSelected = FALSE
    /\ brushSize = 0
    /\ brushStrength = 0
    /\ now = 0
    /\ mousePosition = "miss"

NoAxes == [x |-> FALSE, y |-> FALSE, z |-> FALSE]

\* No mirror points built yet
MirrorStart ==
    /\ mirrorInput = [point |-> Zero3, normal |-> Zero3]
    /\ mirrorPoints = <<>>
    /\ mirrorCalls = 0

MirrorUnused == MirrorStart /\ symmetryAxes = NoAxes

\* The frame callbacks that can have a sample in progress
FrameIds == {1, 2}

NoFrame ==
    [pc |-> "idle", geometry |-> 0, startingVersion |-> 0, strokes |-> 0,
     called |-> FALSE, accepted |-> FALSE, grew |-> FALSE]

\* The mesh with its first geometry at version 0, no sample started
VersionStart(geometry) ==
    /\ arena = <<geometry>>
    /\ geometryRef = 1
    /\ geometryVersionRef = 0
    /\ frames = [f \in FrameIds |-> NoFrame]

VersionUnused == VersionStart(Geometry(<<>>, <<>>))

\* The scene states: 0 is the empty scene of the mount
SceneStates == 0..2

\* The undo hook as it mounts: an empty history
UndoStart ==
    /\ history = <<>>
    /\ currentIndexRef = -1
    /\ sceneState = 0
    /\ lastOperation = "none"
    /\ restored = FALSE
    /\ operations = 0

\* The scene object as it mounts: no button held, nothing hovered
PointerStart ==
    /\ isMouseDown = FALSE
    /\ isHovering = FALSE
    /\ hoverPointRef = NoPoint
    /\ strokeSamples = 0
    /\ buttonHeld = FALSE

SubInit ==
    /\ \E geometry \in InputGeometries : SubStart(geometry) /\ VersionStart(geometry)
    /\ SculptUnused
    /\ MirrorUnused
    /\ PointerStart
    /\ UndoStart

Subdivide(point, radius, maxEdgeLength) ==
    /\ subCalls < MaxSubdivideCalls
    /\ VertexCount(subOutput) <= MaxSubdivideVertices
    /\ subInput' = subOutput
    /\ subArgs' = [point |-> point, radius |-> radius, maxEdgeLength |-> maxEdgeLength]
    /\ LET call == subdivideGeometryOnHeap(arena, geometryRef, point, radius,
                                           maxEdgeLength)
       IN  arena' = call.objects /\ geometryRef' = call.result
    /\ subOutput' = arena'[geometryRef']
    /\ subCalls' = subCalls + 1
    /\ subPrev' = IF subCalls = 0 THEN <<>> ELSE <<subArgs>>
    /\ UNCHANGED <<undoVars, pointerVars, sculptVars, mirrorVars, geometryVersionRef, frames>>

SubNext ==
    \E point \in SubdividePoints, radius \in SubdivideRadii,
       maxEdgeLength \in SubdivideMaxEdges :
        Subdivide(point, radius, maxEdgeLength)

\* The calls on the input geometries and on the ribbon
PropagationInit ==
    /\ \E geometry \in InputGeometries \cup {Ribbon, RibbonFromSecond, RibbonFromThird} :
          SubStart(geometry) /\ VersionStart(geometry)
    /\ SculptUnused
    /\ MirrorUnused
    /\ PointerStart
    /\ UndoStart

SpecPropagation == PropagationInit /\ [][SubNext]_vars

SpecSubdivide == SubInit /\ [][SubNext]_vars

\* ------------------------------------------------------------------------
\* Specification of a sculpting session: one selected mesh, the pointer, the
\* Shift key, the tool prop and the stroke samples (hooks/useSculpting.ts).
\* The mesh has unit scale: worldScale = mesh.scale.length() / sqrt(3) = 1.
\* ------------------------------------------------------------------------

SculptGeometries == {Octahedron, Strip}

MeshOffsets == {Vec(Unit \div 2, 0, -2 * Unit)}

BrushSizes == {4 * Unit, 8 * Unit}

BrushStrengths == {Unit \div 2}

MouseTargets == {"miss", "vertex", "face"}

Keys == {"Shift", "Alt"}

\* Milliseconds between two stroke samples
FrameIntervals == {SubdivisionThrottleMs \div 2, 2 * SubdivisionThrottleMs}

\* Date.now() when the hook is created
StartTime == 10 * SubdivisionThrottleMs

\* sculpt() calls in one behaviour
MaxSamples == 2

\* Largest mesh that is sampled again
MaxSculptVertices == 18

SculptInit ==
    /\ \E geometry \in SculptGeometries : SculptStart(geometry) /\ SubStart(geometry)
    /\ matrixWorld \in MeshOffsets
    /\ currentTool \in ToolTypes
    /\ isSelected \in BOOLEAN
    /\ brushSize \in BrushSizes
    /\ brushStrength \in BrushStrengths
    /\ now = StartTime
    /\ mousePosition \in MouseTargets
    /\ MirrorUnused
    /\ VersionUnused
    /\ PointerStart
    /\ UndoStart

\* The session is followed until its last stroke sample
SessionOpen == samples < MaxSamples

\* The re-render with another tool
SetTool(tool) ==
    /\ SessionOpen
    /\ tool # currentTool
    /\ currentTool' = tool
    /\ UNCHANGED <<undoVars, pointerVars, subVars, mirrorVars, versionVars, meshGeometry, matrixWorld, isSelected, brushSize, brushStrength,
                   isProcessing, lastSubdivisionTime, now, pushToolLastPoint,
                   isShiftPressed, mousePosition, lastSample,
                   strokeGeometry, strokeNormal, lastModified, samples>>

handleKeyDown(key) ==
    /\ SessionOpen
    /\ isShiftPressed' = IF key = "Shift" THEN TRUE ELSE isShiftPressed
    /\ UNCHANGED <<undoVars, pointerVars, subVars, mirrorVars, versionVars, meshGeometry, matrixWorld, currentTool, isSelected, brushSize,
                   brushStrength, isProcessing, lastSubdivisionTime, now,
                   pushToolLastPoint, mousePosition, lastSample,
                   strokeGeometry, strokeNormal, lastModified, samples>>

handleKeyUp(key) ==
    /\ SessionOpen
    /\ isShiftPressed' = IF key = "Shift" THEN FALSE ELSE isShiftPressed
    /\ UNCHANGED <<undoVars, pointerVars, subVars, mirrorVars, versionVars, meshGeometry, matrixWorld, currentTool, isSelected, brushSize,
                   brushStrength, isProcessing, lastSubdivisionTime, now,
                   pushToolLastPoint, mousePosition, lastSample,
                   strokeGeometry, strokeNormal, lastModified, samples>>

resetPushTool ==
    /\ SessionOpen
    /\ pushToolLastPoint' = IF currentTool = "push" THEN NoPoint ELSE pushToolLastPoint
    /\ UNCHANGED <<undoVars, pointerVars, subVars, mirrorVars, versionVars, meshGeometry, matrixWorld, currentTool, isSelected, brushSize,
                   brushStrength, isProcessing, lastSubdivisionTime, now,
                   isShiftPressed, mousePosition, lastSample,
                   strokeGeometry, strokeNormal, lastModified, samples>>

updateMousePosition(target) ==
    /\ SessionOpen
    /\ mousePosition' = target
    /\ UNCHANGED <<undoVars, pointerVars, subVars, mirrorVars, versionVars, meshGeometry, matrixWorld, currentTool, isSelected, brushSize,
                   brushStrength, isProcessing, lastSubdivisionTime, now,
                   pushToolLastPoint, isShiftPressed, lastSample,
                   strokeGeometry, strokeNormal, lastModified, samples>>

\* The entry of sculpt(): the guard, the ray cast and the throttle test
SampleOf(time) ==
    LET intersects == intersectObject(meshGeometry, matrixWorld, mousePosition)
        entered == isSelected /\ isSculptModeOf(currentTool) /\ ~isProcessing
        base == [NoSample EXCEPT !.entered = entered, !.tool = currentTool,
                                 !.shift = isShiftPressed, !.previous = pushToolLastPoint]
    IN  IF ~entered \/ intersects = <<>> THEN base
        ELSE [base EXCEPT !.hit = TRUE,
                          !.point = intersects[1].point,
                          !.normal = intersects[1].normal,
                          !.shouldSubdivide =
                              time - lastSubdivisionTime > SubdivisionThrottleMs]

\* sculpt(), called elapsed milliseconds after the previous sample
sculpt(elapsed) ==
    /\ SessionOpen
    /\ VertexCount(meshGeometry) <= MaxSculptVertices
    /\ samples' = samples + 1
    /\ now' = now + elapsed
    /\ strokeSamples' = strokeSamples + 1
    /\ UNCHANGED <<undoVars, isMouseDown, isHovering, hoverPointRef, buttonHeld, mirrorVars, versionVars, matrixWorld, currentTool, isSelected,
                   brushSize, brushStrength, isShiftPressed, mousePosition>>
    /\ lastSample' = SampleOf(now')
    /\ IF ~lastSample'.entered
       THEN \* return false at the guard
            /\ strokeGeometry' = meshGeometry
            /\ strokeNormal' = Zero3
            /\ lastModified' = FALSE
            /\ UNCHANGED <<subVars, meshGeometry, isProcessing, lastSubdivisionTime,
                           pushToolLastPoint>>
       ELSE IF ~lastSample'.hit
       THEN \* intersects.length === 0
            /\ isProcessing' = FALSE
            /\ strokeGeometry' = meshGeometry
            /\ strokeNormal' = Zero3
            /\ lastModified' = FALSE
            /\ UNCHANGED <<subVars, meshGeometry, lastSubdivisionTime, pushToolLastPoint>>
       ELSE \* subdivision phase
            /\ IF lastSample'.shouldSubdivide
               THEN /\ subInput' = geometryOfMesh(meshGeometry, subInput)
                    /\ subArgs' = [point |-> ToLocal(matrixWorld, lastSample'.point),
                                   radius |-> RDiv(brushSize * 3, 2),
                                   maxEdgeLength |-> RDiv(brushSize, 4)]
                    /\ subOutput' = subdivideGeometryLocally(subInput', subArgs'.point,
                                        subArgs'.radius, subArgs'.maxEdgeLength)
                    /\ subCalls' = subCalls + 1
                    /\ subPrev' = IF subCalls = 0 THEN <<>> ELSE <<subArgs>>
                    /\ strokeGeometry' = geometryAfterSubdivision(subInput', subOutput')
                    /\ lastSubdivisionTime' = IF Grew(subInput', subOutput') THEN now'
                                              ELSE lastSubdivisionTime
               ELSE /\ strokeGeometry' = geometryOfMesh(meshGeometry, subInput)
                    /\ UNCHANGED <<subVars, lastSubdivisionTime>>
            \* deformation phase
            /\ strokeNormal' = avgNormalOf(strokeGeometry', matrixWorld, lastSample'.point,
                                           lastSample'.normal, brushSize)
            /\ lastModified' =
                  \E i \in 1..VertexCount(strokeGeometry') :
                      VertexModified(strokeGeometry'.position[i], matrixWorld,
                                     lastSample'.point, currentTool, brushSize,
                                     pushToolLastPoint)
            /\ LET positionsArray ==
                       [i \in 1..VertexCount(strokeGeometry') |->
                           DeformVertex(strokeGeometry'.position[i], matrixWorld,
                                        lastSample'.point, strokeNormal', currentTool,
                                        brushSize, brushStrength, pushToolLastPoint,
                                        isShiftPressed)]
               IN  meshGeometry' =
                      IF lastModified' THEN WithPositions(strokeGeometry', positionsArray)
                      ELSE [strokeGeometry' EXCEPT !.position = positionsArray]
            /\ pushToolLastPoint' = IF currentTool = "push" THEN lastSample'.point
                                    ELSE pushToolLastPoint
            /\ isProcessing' = FALSE

SculptNext ==
    \/ \E tool \in ToolTypes : SetTool(tool)
    \/ \E key \in Keys : handleKeyDown(key)
    \/ \E key \in Keys : handleKeyUp(key)
    \/ resetPushTool
    \/ \E target \in MouseTargets : updateMousePosition(target)
    \/ \E elapsed \in FrameIntervals : sculpt(elapsed)

SpecSculpt == SculptInit /\ [][SculptNext]_vars

\* ------------------------------------------------------------------------
\* Specification of the mirror points alone: the list is built for a stroke
\* point and an average normal on a mesh placed at matrixWorld
\* ------------------------------------------------------------------------

\* World space stroke points: generic, in a coordinate plane, on an axis
MirrorInputPoints == {Vec(Unit, 2 * Unit, 3 * Unit), Vec(-Unit, 0, Unit \div 2),
                      Vec(0, 0, 2 * Unit), Vec(3 * Unit, -Unit, Unit)}

\* avgNormal is the result of normalize(): unit vectors
MirrorInputNormals == {Vec(Unit, 0, 0), Vec((3 * Unit) \div 5, (4 * Unit) \div 5, 0),
                       Vec(0, -((3 * Unit) \div 5), (4 * Unit) \div 5),
                       Vec((9 * Unit) \div 25, (12 * Unit) \div 25, (4 * Unit) \div 5)}

MirrorOffsets == {Zero3, Vec(Unit \div 2, 0, -2 * Unit), Vec(-Unit, 3 * Unit, Unit)}

AxisSettings == [x : BOOLEAN, y : BOOLEAN, z : BOOLEAN]

\* Builds of the list in one behaviour
MaxMirrorCalls == 2

MirrorInit ==
    /\ \E geometry \in {Octahedron} : SculptStart(geometry) /\ SubStart(geometry)
    /\ matrixWorld \in MirrorOffsets
    /\ currentTool = "add"
    /\ isSelected = TRUE
    /\ brushSize \in {Unit}
    /\ brushStrength \in {Unit \div 2}
    /\ now = StartTime
    /\ mousePosition = "miss"
    /\ symmetryAxes \in AxisSettings
    /\ MirrorStart
    /\ VersionUnused
    /\ PointerStart
    /\ UndoStart

\* The re-render with other symmetry axes; the list is a local of the sample
\* that built it and is not kept
SetSymmetryAxes(axes) ==
    /\ mirrorCalls < MaxMirrorCalls
    /\ axes # symmetryAxes
    /\ symmetryAxes' = axes
    /\ mirrorPoints' = <<>>
    /\ UNCHANGED <<undoVars, pointerVars, subVars, sculptVars, versionVars, mirrorInput, mirrorCalls>>

\* "Generate mirror points" of a sample with this stroke point and avgNormal
GenerateMirrorPoints(point, avgNormal) ==
    /\ mirrorCalls < MaxMirrorCalls
    /\ mirrorInput' = [point |-> point, normal |-> avgNormal]
    /\ mirrorPoints' = mirrorPointsOf(point, avgNormal, symmetryAxes, matrixWorld)
    /\ mirrorCalls' = mirrorCalls + 1
    /\ UNCHANGED <<undoVars, pointerVars, subVars, sculptVars, versionVars, symmetryAxes>>

MirrorNext ==
    \/ \E axes \in AxisSettings : SetSymmetryAxes(axes)
    \/ \E point \in MirrorInputPoints, avgNormal \in MirrorInputNormals :
          GenerateMirrorPoints(point, avgNormal)

SpecSymmetry == MirrorInit /\ [][MirrorNext]_vars

\* ------------------------------------------------------------------------
\* Specification of the stroke with symmetry: sculpt() of the hook with the
\* symmetryAxes prop, on a mesh that is symmetric about its three planes
\* ------------------------------------------------------------------------

SymmetricSculptTools == {"add", "subtract", "push"}

SymmetricSculptAxes ==
    {[x |-> TRUE, y |-> FALSE, z |-> FALSE], [x |-> FALSE, y |-> TRUE, z |-> FALSE],
     [x |-> TRUE, y |-> FALSE, z |-> TRUE]}

SymmetricSculptOffsets == {Zero3, Vec(Unit \div 2, 0, -2 * Unit)}

SymmetricSculptInit ==
    /\ \E geometry \in {Octahedron} : SculptStart(geometry) /\ SubStart(geometry)
    /\ matrixWorld \in SymmetricSculptOffsets
    /\ currentTool \in SymmetricSculptTools
    /\ isSelected = TRUE
    /\ brushSize \in BrushSizes
    /\ brushStrength \in BrushStrengths
    /\ now = StartTime
    /\ mousePosition \in {"vertex", "face"}
    /\ symmetryAxes \in SymmetricSculptAxes
    /\ MirrorStart
    /\ VersionUnused
    /\ PointerStart
    /\ UndoStart

\* sculpt() with mirror points, called elapsed milliseconds after the
\* previous sample
sculptWithSymmetry(elapsed) ==
    /\ SessionOpen
    /\ VertexCount(meshGeometry) <= MaxSculptVertices
    /\ samples' = samples + 1
    /\ now' = now + elapsed
    /\ UNCHANGED <<undoVars, pointerVars, versionVars, symmetryAxes, matrixWorld, currentTool, isSelected,
                   brushSize, brushStrength, isShiftPressed, mousePosition>>
    /\ lastSample' = SampleOf(now')
    /\ IF ~lastSample'.entered
       THEN \* return false at the guard
            /\ strokeGeometry' = meshGeometry
            /\ strokeNormal' = Zero3
            /\ lastModified' = FALSE
            /\ UNCHANGED <<subVars, mirrorInput, mirrorPoints, mirrorCalls, meshGeometry,
                           isProcessing, lastSubdivisionTime, pushToolLastPoint>>
       ELSE IF ~lastSample'.hit
       THEN \* intersects.length === 0
            /\ isProcessing' = FALSE
            /\ strokeGeometry' = meshGeometry
            /\ strokeNormal' = Zero3
            /\ lastModified' = FALSE
            /\ UNCHANGED <<subVars, mirrorInput, mirrorPoints, mirrorCalls, meshGeometry,
                           lastSubdivisionTime, pushToolLastPoint>>
       ELSE \* subdivision phase
            /\ IF lastSample'.shouldSubdivide
               THEN /\ subInput' = meshGeometry
                    /\ subArgs' = [point |-> ToLocal(matrixWorld, lastSample'.point),
                                   radius |-> RDiv(brushSize * 3, 2),
                                   maxEdgeLength |-> RDiv(brushSize, 4)]
                    /\ subOutput' = subdivideGeometryLocally(meshGeometry, subArgs'.point,
                                        subArgs'.radius, subArgs'.maxEdgeLength)
                    /\ subCalls' = subCalls + 1
                    /\ subPrev' = IF subCalls = 0 THEN <<>> ELSE <<subArgs>>
                    /\ strokeGeometry' = geometryAfterSubdivision(meshGeometry, subOutput')
                    /\ lastSubdivisionTime' = IF Grew(meshGeometry, subOutput') THEN now'
                                              ELSE lastSubdivisionTime
               ELSE /\ strokeGeometry' = meshGeometry
                    /\ UNCHANGED <<subVars, lastSubdivisionTime>>
            \* deformation phase
            /\ strokeNormal' = avgNormalOf(strokeGeometry', matrixWorld, lastSample'.point,
                                           lastSample'.normal, brushSize)
            /\ mirrorInput' = [point |-> lastSample'.point, normal |-> strokeNormal']
            /\ mirrorPoints' = mirrorPointsOf(lastSample'.point, strokeNormal', symmetryAxes,
                                              matrixWorld)
            /\ mirrorCalls' = mirrorCalls + 1
            /\ lastModified' =
                  \E i \in 1..VertexCount(strokeGeometry') :
                      VertexModifiedForMirrors(strokeGeometry'.position[i], matrixWorld,
                          lastSample'.point, mirrorPoints', Len(mirrorPoints'), currentTool,
                          brushSize, brushStrength, pushToolLastPoint, isShiftPressed,
                          symmetryAxes)
            /\ LET positionsArray ==
                       [i \in 1..VertexCount(strokeGeometry') |->
                           DeformVertexForMirrors(strokeGeometry'.position[i], matrixWorld,
                               lastSample'.point, mirrorPoints', Len(mirrorPoints'),
                               currentTool, brushSize, brushStrength, pushToolLastPoint,
                               isShiftPressed, symmetryAxes)]
               IN  meshGeometry' =
                      IF lastModified' THEN WithPositions(strokeGeometry', positionsArray)
                      ELSE [strokeGeometry' EXCEPT !.position = positionsArray]
            /\ pushToolLastPoint' = IF currentTool = "push" THEN lastSample'.point
                                    ELSE pushToolLastPoint
            /\ isProcessing' = FALSE

SymmetricSculptNext ==
    \/ \E target \in {"vertex", "face"} : updateMousePosition(target)
    \/ \E elapsed \in FrameIntervals : sculptWithSymmetry(elapsed)

SpecSymmetricSculpt == SymmetricSculptInit /\ [][SymmetricSculptNext]_vars

\* A flat strip of seven triangles in the plane z = 0, mirror symmetric about
\* the plane x = 0: five vertices on y = 0 and four on y = 0.1, 0.4 apart
MirrorStrip ==
    Geometry(<<Vec(800, 0, 0), Vec(400, 0, 0), Vec(0, 0, 0), Vec(-400, 0, 0),
               Vec(-800, 0, 0), Vec(600, 100, 0), Vec(200, 100, 0), Vec(-200, 100, 0),
               Vec(-600, 100, 0)>>,
             <<1, 0, 5,  1, 5, 6,  2, 1, 6,  2, 6, 7,  3, 2, 7,  3, 7, 8,  4, 3, 8>>)

\* The stroke with symmetry under a brush that covers a part of the mesh only
LocalBrushSizes == {(4 * Unit) \div 5}

LocalSymmetricSculptInit ==
    /\ \E geometry \in {MirrorStrip} : SculptStart(geometry) /\ SubStart(geometry)
    /\ matrixWorld \in SymmetricSculptOffsets
    /\ currentTool \in SymmetricSculptTools
    /\ isSelected = TRUE
    /\ brushSize \in LocalBrushSizes
    /\ brushStrength \in BrushStrengths
    /\ now = StartTime
    /\ mousePosition \in {"vertex", "face"}
    /\ symmetryAxes \in SymmetricSculptAxes
    /\ MirrorStart
    /\ VersionUnused
    /\ PointerStart
    /\ UndoStart

SpecLocalSymmetricSculpt == LocalSymmetricSculptInit /\ [][SymmetricSculptNext]_vars

\* ------------------------------------------------------------------------
\* Specification of the scene object (components/objects/SceneObject.tsx):
\* the canvas listeners and the frame callback around the hook's sculpt().
\* Each handler sees the props of the last render.  Drags of the move and
\* scale tools (useObjectManipulation) are not followed: isDragging is
\* false throughout.
\* ------------------------------------------------------------------------

PointerTools == {"select", "move", "add", "push"}

\* needsMouseEvents: the canvas listeners are attached
needsMouseEvents ==
    (isSculptModeOf(currentTool) /\ isSelected) \/ currentTool \in {"move", "scale"}

PointerInit ==
    /\ SculptStart(Octahedron) /\ SubStart(Octahedron)
    /\ matrixWorld \in MeshOffsets
    /\ currentTool \in PointerTools
    /\ isSelected = TRUE
    /\ brushSize \in BrushSizes
    /\ brushStrength \in BrushStrengths
    /\ now = StartTime
    /\ mousePosition \in MouseTargets
    /\ MirrorUnused
    /\ VersionStart(Geometry(<<>>, <<>>))
    /\ PointerStart
    /\ UndoStart

\* mousedown of the left button with the pointer over target; the
\* listener runs if it is attached
handleMouseDown(target) ==
    /\ SessionOpen
    /\ ~buttonHeld
    /\ buttonHeld' = TRUE
    /\ IF needsMouseEvents /\ isSculptModeOf(currentTool) /\ isSelected
       THEN /\ isMouseDown' = TRUE
            /\ mousePosition' = target
            /\ strokeSamples' = 0
       ELSE UNCHANGED <<isMouseDown, mousePosition, strokeSamples>>
    /\ UNCHANGED <<undoVars, subVars, mirrorVars, versionVars, isHovering, hoverPointRef,
                   meshGeometry, matrixWorld, currentTool, isSelected, brushSize,
                   brushStrength, isProcessing, lastSubdivisionTime, now,
                   pushToolLastPoint, isShiftPressed, lastSample,
                   strokeGeometry, strokeNormal, lastModified, samples>>

\* mouseup (the button is released) and mouseleave (the pointer leaves the
\* canvas): the same listener, which ends with resetPushTool()
handleMouseUp(leave) ==
    /\ SessionOpen
    /\ leave \/ buttonHeld
    /\ buttonHeld' = IF leave THEN buttonHeld ELSE FALSE
    /\ IF needsMouseEvents
       THEN /\ isMouseDown' = FALSE
            /\ pushToolLastPoint' = IF currentTool = "push" THEN NoPoint
                                    ELSE pushToolLastPoint
       ELSE UNCHANGED <<isMouseDown, pushToolLastPoint>>
    /\ UNCHANGED <<undoVars, subVars, mirrorVars, versionVars, isHovering, hoverPointRef,
                   strokeSamples, meshGeometry, matrixWorld, currentTool, isSelected,
                   brushSize, brushStrength, isProcessing, lastSubdivisionTime, now,
                   isShiftPressed, mousePosition, lastSample,
                   strokeGeometry, strokeNormal, lastModified, samples>>

\* mousemove to target
handleMouseMove(target) ==
    /\ SessionOpen
    /\ needsMouseEvents
    /\ mousePosition' = IF isSculptModeOf(currentTool) /\ isSelected THEN target
                        ELSE mousePosition
    /\ UNCHANGED <<undoVars, subVars, mirrorVars, versionVars, pointerVars,
                   meshGeometry, matrixWorld, currentTool, isSelected, brushSize,
                   brushStrength, isProcessing, lastSubdivisionTime, now,
                   pushToolLastPoint, isShiftPressed, lastSample,
                   strokeGeometry, strokeNormal, lastModified, samples>>

\* The frame callback, elapsed milliseconds after the previous sample
useFrame(elapsed) ==
    IF isMouseDown /\ isSculptModeOf(currentTool) /\ isSelected
    THEN sculpt(elapsed)
    ELSE UNCHANGED vars

PointerNext ==
    \/ \E tool \in PointerTools : SetTool(tool)
    \/ \E target \in MouseTargets : handleMouseDown(target)
    \/ \E leave \in BOOLEAN : handleMouseUp(leave)
    \/ \E target \in MouseTargets : handleMouseMove(target)
    \/ \E elapsed \in FrameIntervals : useFrame(elapsed)

SpecPointer == PointerInit /\ [][PointerNext]_vars

\* ------------------------------------------------------------------------
\* Specification of the scene object with hover pre-subdivision
\* (components/SceneObject.tsx): its listeners, its own sculpt() and its
\* frame callback.  The object stays selected under a sculpt tool, so the
\* listeners are those of the mount: their effect does not depend on
\* isMouseDown, and the isMouseDown they read is the false of the mount.
\* ------------------------------------------------------------------------

\* The hover branch of the frame callback waits this long after a subdivision
HoverThrottleMs == 200

HoverBrushSizes == {8 * Unit}

\* geometry.getAttribute('position') is defined
hasPositions(geometry) == "position" \in DOMAIN geometry

\* A BufferGeometry without attributes and without index
BareGeometry == [index |-> <<>>, hasIndex |-> FALSE, normal |-> <<>>]

\* raycaster.intersectObject(mesh) in the component.  For a geometry without
\* position attribute the outcome of the library's ray cast is left to the
\* pointer target: no intersection, or one at the origin of the mesh with
\* the default face normal (0, 1, 0)
intersectMesh(geometry, meshMatrixWorld, target) ==
    IF hasPositions(geometry) THEN intersectObject(geometry, meshMatrixWorld, target)
    ELSE IF target = "miss" THEN <<>>
    ELSE <<[point |-> ToWorld(meshMatrixWorld, Zero3), normal |-> Vec(0, Unit, 0)]>>

HoverInit ==
    /\ SculptStart(Octahedron) /\ SubStart(Octahedron)
    /\ matrixWorld \in MeshOffsets
    /\ currentTool \in {"add", "push"}
    /\ isSelected = TRUE
    /\ brushSize \in HoverBrushSizes
    /\ brushStrength \in BrushStrengths
    /\ now = StartTime
    /\ mousePosition \in MouseTargets
    /\ MirrorUnused
    /\ VersionStart(Geometry(<<>>, <<>>))
    /\ PointerStart
    /\ UndoStart

handleMouseDownWithHover(target) ==
    /\ SessionOpen
    /\ ~buttonHeld
    /\ buttonHeld' = TRUE
    /\ IF isSculptModeOf(currentTool) /\ isSelected
       THEN /\ isMouseDown' = TRUE
            /\ mousePosition' = target
            /\ strokeSamples' = 0
       ELSE UNCHANGED <<isMouseDown, mousePosition, strokeSamples>>
    /\ UNCHANGED <<undoVars, subVars, mirrorVars, versionVars, isHovering, hoverPointRef,
                   meshGeometry, matrixWorld, currentTool, isSelected, brushSize,
                   brushStrength, isProcessing, lastSubdivisionTime, now,
                   pushToolLastPoint, isShiftPressed, lastSample,
                   strokeGeometry, strokeNormal, lastModified, samples>>

\* mouseup and mouseleave
handleMouseUpWithHover(leave) ==
    /\ SessionOpen
    /\ leave \/ buttonHeld
    /\ buttonHeld' = IF leave THEN buttonHeld ELSE FALSE
    /\ isMouseDown' = IF isSculptModeOf(currentTool) /\ isSelected THEN FALSE
                      ELSE isMouseDown
    /\ UNCHANGED <<undoVars, subVars, mirrorVars, versionVars, isHovering, hoverPointRef,
                   strokeSamples, meshGeometry, matrixWorld, currentTool, isSelected,
                   brushSize, brushStrength, isProcessing, lastSubdivisionTime, now,
                   pushToolLastPoint, isShiftPressed, mousePosition, lastSample,
                   strokeGeometry, strokeNormal, lastModified, samples>>

\* mousemove to target: the pointer position and the hover ray cast
handleMouseMoveWithHover(target) ==
    /\ SessionOpen
    /\ isSculptModeOf(currentTool) /\ isSelected
    /\ mousePosition' = target
    /\ LET intersects == intersectMesh(meshGeometry, matrixWorld, target)
       IN  IF intersects # <<>>
           THEN isHovering' = TRUE /\ hoverPointRef' = intersects[1].point
           ELSE isHovering' = FALSE /\ hoverPointRef' = NoPoint
    /\ UNCHANGED <<undoVars, subVars, mirrorVars, versionVars, isMouseDown, strokeSamples,
                   buttonHeld, meshGeometry, matrixWorld, currentTool, isSelected,
                   brushSize, brushStrength, isProcessing, lastSubdivisionTime, now,
                   pushToolLastPoint, isShiftPressed, lastSample,
                   strokeGeometry, strokeNormal, lastModified, samples>>

\* The entry of the component's sculpt(): isMouseDown is part of the guard
SampleWithHoverOf(time) ==
    LET intersects == intersectMesh(meshGeometry, matrixWorld, mousePosition)
        entered == isSelected /\ isSculptModeOf(currentTool) /\ isMouseDown /\ ~isProcessing
        base == [NoSample EXCEPT !.entered = entered, !.tool = currentTool,
                                 !.shift = isShiftPressed]
    IN  IF ~entered \/ intersects = <<>> THEN base
        ELSE [base EXCEPT !.hit = TRUE,
                          !.point = intersects[1].point,
                          !.normal = intersects[1].normal,
                          !.shouldSubdivide =
                              time - lastSubdivisionTime > SubdivisionThrottleMs]

\* The component's sculpt(): every sculpt tool displaces along the average
\* normal, which is the loop body of the hook under the add tool
sculptWithHover(elapsed) ==
    /\ SessionOpen
    /\ hasPositions(meshGeometry) => VertexCount(meshGeometry) <= MaxSculptVertices
    /\ samples' = samples + 1
    /\ strokeSamples' = strokeSamples + 1
    /\ now' = now + elapsed
    /\ UNCHANGED <<undoVars, isMouseDown, isHovering, hoverPointRef, buttonHeld, mirrorVars,
                   versionVars, matrixWorld, currentTool, isSelected, brushSize,
                   brushStrength, isShiftPressed, mousePosition, pushToolLastPoint>>
    /\ lastSample' = SampleWithHoverOf(now')
    /\ IF ~lastSample'.entered
       THEN /\ strokeGeometry' = meshGeometry
            /\ strokeNormal' = Zero3
            /\ lastModified' = FALSE
            /\ UNCHANGED <<subVars, meshGeometry, isProcessing, lastSubdivisionTime>>
       ELSE IF ~lastSample'.hit
       THEN /\ isProcessing' = FALSE
            /\ strokeGeometry' = meshGeometry
            /\ strokeNormal' = Zero3
            /\ lastModified' = FALSE
            /\ UNCHANGED <<subVars, meshGeometry, lastSubdivisionTime>>
       ELSE IF ~hasPositions(meshGeometry)
       THEN \* a throttled sample leaves at  if (!positions) return;  and a
            \* sample that subdivides gets the geometry back from the
            \* subdivider and fails on the count of its missing attribute:
            \* neither clears the flag
            /\ isProcessing' = TRUE
            /\ strokeGeometry' = meshGeometry
            /\ strokeNormal' = Zero3
            /\ lastModified' = FALSE
            /\ UNCHANGED <<subVars, meshGeometry, lastSubdivisionTime>>
       ELSE /\ IF lastSample'.shouldSubdivide
               THEN /\ subInput' = meshGeometry
                    /\ subArgs' = [point |-> ToLocal(matrixWorld, lastSample'.point),
                                   radius |-> RDiv(brushSize * 5, 2),
                                   maxEdgeLength |-> RDiv(brushSize, 10)]
                    /\ subOutput' = subdivideGeometryLocally(meshGeometry, subArgs'.point,
                                        subArgs'.radius, subArgs'.maxEdgeLength)
                    /\ subCalls' = subCalls + 1
                    /\ subPrev' = IF subCalls = 0 THEN <<>> ELSE <<subArgs>>
                    /\ strokeGeometry' = geometryAfterSubdivision(meshGeometry, subOutput')
                    /\ lastSubdivisionTime' = IF Grew(meshGeometry, subOutput') THEN now'
                                              ELSE lastSubdivisionTime
               ELSE /\ strokeGeometry' = meshGeometry
                    /\ UNCHANGED <<subVars, lastSubdivisionTime>>
            /\ strokeNormal' = avgNormalOf(strokeGeometry', matrixWorld, lastSample'.point,
                                           lastSample'.normal, brushSize)
            /\ lastModified' =
                  \E i \in 1..VertexCount(strokeGeometry') :
                      VertexModified(strokeGeometry'.position[i], matrixWorld,
                                     lastSample'.point, "add", brushSize, NoPoint)
            /\ LET positionsArray ==
                       [i \in 1..VertexCount(strokeGeometry') |->
                           DeformVertex(strokeGeometry'.position[i], matrixWorld,
                                        lastSample'.point, strokeNormal', "add",
                                        brushSize, brushStrength, NoPoint,
                                        isShiftPressed)]
               IN  meshGeometry' =
                      IF lastModified' THEN WithPositions(strokeGeometry', positionsArray)
                      ELSE [strokeGeometry' EXCEPT !.position = positionsArray]
            /\ isProcessing' = FALSE

\* The else branch of the frame callback: pre-subdivision around the
\* hovered point
preSubdivide(elapsed) ==
    /\ SessionOpen
    /\ hasPositions(meshGeometry) => VertexCount(meshGeometry) <= MaxSculptVertices
    /\ samples' = samples + 1
    /\ now' = now + elapsed
    /\ IF now' - lastSubdivisionTime > HoverThrottleMs /\ ~hasPositions(meshGeometry)
       THEN \* the subdivider returns the geometry and the count of its
            \* missing attribute fails with the flag set
            /\ isProcessing' = TRUE
            /\ UNCHANGED <<subVars, meshGeometry, lastSubdivisionTime>>
       ELSE IF now' - lastSubdivisionTime > HoverThrottleMs
       THEN /\ subInput' = meshGeometry
            /\ subArgs' = [point |-> ToLocal(matrixWorld, hoverPointRef),
                           radius |-> brushSize * 2,
                           maxEdgeLength |-> RDiv(brushSize, 10)]
            /\ subOutput' = subdivideGeometryLocally(meshGeometry, subArgs'.point,
                                subArgs'.radius, subArgs'.maxEdgeLength)
            /\ subCalls' = subCalls + 1
            /\ subPrev' = IF subCalls = 0 THEN <<>> ELSE <<subArgs>>
            /\ meshGeometry' = geometryAfterSubdivision(meshGeometry, subOutput')
            /\ lastSubdivisionTime' = IF Grew(meshGeometry, subOutput') THEN now'
                                      ELSE lastSubdivisionTime
            /\ isProcessing' = FALSE
       ELSE UNCHANGED <<subVars, meshGeometry, lastSubdivisionTime, isProcessing>>
    /\ UNCHANGED <<undoVars, mirrorVars, versionVars, pointerVars, matrixWorld, currentTool,
                   isSelected, brushSize, brushStrength, pushToolLastPoint,
                   isShiftPressed, mousePosition, lastSample, strokeGeometry,
                   strokeNormal, lastModified>>

\* The frame callback, elapsed milliseconds after the previous frame that
\* did any work
useFrameWithHover(elapsed) ==
    IF isMouseDown /\ isSculptModeOf(currentTool) /\ isSelected
    THEN sculptWithHover(elapsed)
    ELSE IF /\ isHovering /\ isSculptModeOf(currentTool) /\ isSelected /\ ~isMouseDown
            /\ hoverPointRef # NoPoint /\ ~isProcessing
    THEN preSubdivide(elapsed)
    ELSE UNCHANGED vars

HoverNext ==
    \/ \E target \in MouseTargets : handleMouseDownWithHover(target)
    \/ \E leave \in BOOLEAN : handleMouseUpWithHover(leave)
    \/ \E target \in MouseTargets : handleMouseMoveWithHover(target)
    \/ \E elapsed \in FrameIntervals : useFrameWithHover(elapsed)

SpecHover == HoverInit /\ [][HoverNext]_vars

\* The scene object given its mesh by the caller (externalMeshRef), who may
\* assign the mesh a geometry of its own
ExternalGeometries == {BareGeometry}

assignGeometry(geometry) ==
    /\ SessionOpen
    /\ meshGeometry # geometry
    /\ meshGeometry' = geometry
    /\ UNCHANGED <<undoVars, subVars, mirrorVars, versionVars, pointerVars, matrixWorld, currentTool,
                   isSelected, brushSize, brushStrength, isProcessing, lastSubdivisionTime,
                   now, pushToolLastPoint, isShiftPressed, mousePosition, lastSample,
                   strokeGeometry, strokeNormal, lastModified, samples>>

ExternalMeshNext ==
    \/ \E target \in MouseTargets : handleMouseDownWithHover(target)
    \/ \E leave \in BOOLEAN : handleMouseUpWithHover(leave)
    \/ \E target \in MouseTargets : handleMouseMoveWithHover(target)
    \/ \E elapsed \in FrameIntervals : useFrameWithHover(elapsed)
    \/ \E geometry \in ExternalGeometries : assignGeometry(geometry)

SpecExternalMesh == HoverInit /\ [][ExternalMeshNext]_vars

\* ------------------------------------------------------------------------
\* Specification of sculpt() over brush settings that include zero and
\* negative sizes and strengths
\* ------------------------------------------------------------------------

ConfigurationBrushSizes == {-4 * Unit, 0, 4 * Unit}

ConfigurationBrushStrengths == {-(Unit \div 2), 0}

ConfigurationInit ==
    /\ SculptStart(Octahedron) /\ SubStart(Octahedron)
    /\ matrixWorld \in MeshOffsets
    /\ currentTool \in {"add", "push"}
    /\ isSelected = TRUE
    /\ brushSize \in ConfigurationBrushSizes
    /\ brushStrength \in ConfigurationBrushStrengths
    /\ now = StartTime
    /\ mousePosition \in MouseTargets
    /\ MirrorUnused
    /\ VersionStart(Geometry(<<>>, <<>>))
    /\ PointerStart
    /\ UndoStart

SpecConfiguration == ConfigurationInit /\ [][SculptNext]_vars

\* ------------------------------------------------------------------------
\* Specification of the version guard: stroke samples of two frame callbacks
\* on one mesh.  A sample reads the geometry and the version when it
\* starts; its stroke and its call of onGeometryUpdate run without
\* interruption when it completes, possibly after another sample completed.
\* ------------------------------------------------------------------------

VersionTools == {"add", "push", "select"}

\* Samples started in one behaviour
MaxFrameSamples == 3

VersionInit ==
    /\ \E geometry \in {Octahedron} :
          SculptStart(geometry) /\ SubStart(geometry) /\ VersionStart(geometry)
    /\ matrixWorld \in MeshOffsets
    /\ currentTool \in VersionTools
    /\ isSelected = TRUE
    /\ brushSize \in BrushSizes
    /\ brushStrength \in BrushStrengths
    /\ now = StartTime
    /\ mousePosition \in MouseTargets
    /\ MirrorUnused
    /\ PointerStart
    /\ UndoStart

\* sculpt() up to the capture of the starting version
sculptStart(f) ==
    /\ samples < MaxFrameSamples
    /\ frames[f].pc \in {"idle", "done"}
    /\ samples' = samples + 1
    /\ frames' = [frames EXCEPT ![f] =
                     IF isSelected /\ isSculptModeOf(currentTool)
                     THEN [NoFrame EXCEPT !.pc = "started", !.geometry = geometryRef,
                                          !.startingVersion = geometryVersionRef]
                     ELSE [NoFrame EXCEPT !.pc = "done"]]
    /\ UNCHANGED <<undoVars, pointerVars, subVars, mirrorVars, arena, geometryRef, geometryVersionRef,
                   meshGeometry, matrixWorld, currentTool, isSelected, brushSize,
                   brushStrength, isProcessing, lastSubdivisionTime, now,
                   pushToolLastPoint, isShiftPressed, mousePosition, lastSample,
                   strokeGeometry, strokeNormal, lastModified>>

\* The ray cast and the throttle test of a sample completing at time
StrokeSampleOf(time) ==
    LET intersects == intersectObject(meshGeometry, matrixWorld, mousePosition)
        base == [NoSample EXCEPT !.entered = TRUE, !.tool = currentTool,
                                 !.shift = isShiftPressed, !.previous = pushToolLastPoint]
    IN  IF intersects = <<>> THEN base
        ELSE [base EXCEPT !.hit = TRUE,
                          !.point = intersects[1].point,
                          !.normal = intersects[1].normal,
                          !.shouldSubdivide =
                              time - lastSubdivisionTime > SubdivisionThrottleMs]

\* The rest of sculpt(), elapsed milliseconds after the last completed sample.
\* The stroke is applied to geometry: the object the sample read when it
\* started, or the object that is current when it completes.
sculptComplete(f, elapsed, geometry) ==
    /\ frames[f].pc = "started"
    /\ now' = now + elapsed
    /\ UNCHANGED <<undoVars, pointerVars, mirrorVars, matrixWorld, currentTool, isSelected, brushSize,
                   brushStrength, isProcessing, isShiftPressed, mousePosition, samples>>
    /\ lastSample' = StrokeSampleOf(now')
    /\ IF ~lastSample'.hit
       THEN \* intersects.length === 0
            /\ frames' = [frames EXCEPT ![f].pc = "done"]
            /\ strokeGeometry' = arena[geometry]
            /\ strokeNormal' = Zero3
            /\ lastModified' = FALSE
            /\ UNCHANGED <<subVars, arena, geometryRef, geometryVersionRef, meshGeometry,
                           lastSubdivisionTime, pushToolLastPoint>>
       ELSE \* the subdivision of the stroke
            /\ IF lastSample'.shouldSubdivide
               THEN /\ subInput' = arena[geometry]
                    /\ subArgs' = [point |-> ToLocal(matrixWorld, lastSample'.point),
                                   radius |-> RDiv(brushSize * 3, 2),
                                   maxEdgeLength |-> RDiv(brushSize, 4)]
                    /\ subOutput' = subdivideGeometryLocally(arena[geometry], subArgs'.point,
                                        subArgs'.radius, subArgs'.maxEdgeLength)
                    /\ subCalls' = subCalls + 1
                    /\ subPrev' = IF subCalls = 0 THEN <<>> ELSE <<subArgs>>
                    /\ strokeGeometry' = IF Grew(arena[geometry], subOutput') THEN subOutput'
                                         ELSE arena[geometry]
               ELSE /\ strokeGeometry' = arena[geometry]
                    /\ UNCHANGED subVars
            \* the deformation of the stroke
            /\ strokeNormal' = avgNormalOf(strokeGeometry', matrixWorld, lastSample'.point,
                                           lastSample'.normal, brushSize)
            /\ lastModified' =
                  \/ Grew(arena[geometry], strokeGeometry')
                  \/ \E i \in 1..VertexCount(strokeGeometry') :
                        VertexModified(strokeGeometry'.position[i], matrixWorld,
                                       lastSample'.point, currentTool, brushSize,
                                       pushToolLastPoint)
            /\ LET grew == Grew(arena[geometry], strokeGeometry')
                   \* result.geometry: a new object after a subdivision
                   resultGeometry == IF grew THEN Len(arena) + 1 ELSE geometry
                   called == lastModified' \/ resultGeometry # geometry
                   update == onGeometryUpdate(geometryRef, geometryVersionRef,
                                              resultGeometry, frames[f].startingVersion)
               IN  /\ arena' =
                          LET result == applySculptingStroke(strokeGeometry', matrixWorld,
                                            lastSample'.point, strokeNormal', lastModified',
                                            currentTool, brushSize, brushStrength,
                                            pushToolLastPoint, isShiftPressed)
                          IN  IF grew THEN Append(arena, result)
                              ELSE [arena EXCEPT ![geometry] = result]
                   /\ geometryRef' = IF called THEN update.geometryRef ELSE geometryRef
                   /\ geometryVersionRef' = IF called THEN update.geometryVersionRef
                                            ELSE geometryVersionRef
                   /\ frames' = [frames EXCEPT ![f].pc = "done",
                                               ![f].strokes = @ + 1,
                                               ![f].called = called,
                                               ![f].accepted = called /\ update.accepted,
                                               ![f].grew = grew]
                   /\ lastSubdivisionTime' = IF called /\ update.accepted /\ grew THEN now'
                                             ELSE lastSubdivisionTime
            /\ meshGeometry' = arena'[geometryRef']
            /\ pushToolLastPoint' = IF currentTool = "push" THEN lastSample'.point
                                    ELSE pushToolLastPoint

VersionNext ==
    \/ \E f \in FrameIds : sculptStart(f)
    \/ \E f \in FrameIds, elapsed \in FrameIntervals, reread \in BOOLEAN :
          sculptComplete(f, elapsed, IF reread THEN geometryRef ELSE frames[f].geometry)

SpecVersion == VersionInit /\ [][VersionNext]_vars

\* ------------------------------------------------------------------------
\* Specification of the undo history of the scene (useSceneUndo): saves of
\* the current scene, undo, redo and clearing, between edits of the scene
\* ------------------------------------------------------------------------

\* prop maxHistorySize of the hook under check
maxHistorySize == 3

\* Calls and edits in one behaviour
MaxOperations == 7

\* Variant of saveState that lets the history grow
saveStateWithoutLimit(states, currentIndex, snapshot, limit) ==
    LET kept == IF currentIndex < Len(states) - 1 THEN SubSeq(states, 1, currentIndex + 1)
                ELSE states
        pushed == Append(kept, snapshot)
    IN  [history |-> pushed, currentIndex |-> Len(pushed) - 1]

\* saveState: the states after the current index are dropped, the snapshot is
\* pushed, and either the oldest state is shifted out or the index moves to
\* the new last state
saveState(states, currentIndex, snapshot, limit) ==
    LET kept == IF currentIndex < Len(states) - 1 THEN SubSeq(states, 1, currentIndex + 1)
                ELSE states
        pushed == Append(kept, snapshot)
    IN  IF Len(pushed) > limit
        THEN [history |-> Tail(pushed), currentIndex |-> currentIndex]
        ELSE [history |-> pushed, currentIndex |-> Len(pushed) - 1]

UndoInit ==
    /\ SubStart(Geometry(<<>>, <<>>))
    /\ SculptUnused
    /\ MirrorUnused
    /\ VersionUnused
    /\ PointerStart
    /\ UndoStart

\* The application changes the scene (an object is created, moved or sculpted)
editScene(scene) ==
    /\ operations < MaxOperations
    /\ scene # sceneState
    /\ sceneState' = scene
    /\ lastOperation' = "editScene"
    /\ restored' = FALSE
    /\ operations' = operations + 1
    /\ UNCHANGED <<subVars, sculptVars, mirrorVars, versionVars, pointerVars, history,
                   currentIndexRef>>

\* saveCurrentState: saveState with the objects, geometries and selection of
\* the scene (also the save of the empty scene on mount)
saveCurrentState ==
    /\ operations < MaxOperations
    /\ LET saved == saveState(history, currentIndexRef, sceneState, maxHistorySize)
       IN  history' = saved.history /\ currentIndexRef' = saved.currentIndex
    /\ lastOperation' = "saveState"
    /\ restored' = FALSE
    /\ operations' = operations + 1
    /\ UNCHANGED <<subVars, sculptVars, mirrorVars, versionVars, pointerVars, sceneState>>

handleUndo ==
    /\ operations < MaxOperations
    /\ IF currentIndexRef > 0
       THEN /\ currentIndexRef' = currentIndexRef - 1
            /\ sceneState' = history[currentIndexRef' + 1]
            /\ restored' = TRUE
       ELSE /\ restored' = FALSE
            /\ UNCHANGED <<currentIndexRef, sceneState>>
    /\ lastOperation' = "handleUndo"
    /\ operations' = operations + 1
    /\ UNCHANGED <<subVars, sculptVars, mirrorVars, versionVars, pointerVars, history>>

handleRedo ==
    /\ operations < MaxOperations
    /\ IF currentIndexRef < Len(history) - 1
       THEN /\ currentIndexRef' = currentIndexRef + 1
            /\ sceneState' = history[currentIndexRef' + 1]
            /\ restored' = TRUE
       ELSE /\ restored' = FALSE
            /\ UNCHANGED <<currentIndexRef, sceneState>>
    /\ lastOperation' = "handleRedo"
    /\ operations' = operations + 1
    /\ UNCHANGED <<subVars, sculptVars, mirrorVars, versionVars, pointerVars, history>>

clearHistory ==
    /\ operations < MaxOperations
    /\ history' = <<>>
    /\ currentIndexRef' = -1
    /\ lastOperation' = "clearHistory"
    /\ restored' = FALSE
    /\ operations' = operations + 1
    /\ UNCHANGED <<subVars, sculptVars, mirrorVars, versionVars, pointerVars, sceneState>>

UndoNext ==
    \/ \E scene \in SceneStates : editScene(scene)
    \/ saveCurrentState
    \/ handleUndo
    \/ handleRedo
    \/ clearHistory

SpecUndo == UndoInit /\ [][UndoNext]_vars

\* ------------------------------------------------------------------------
\* Mesh checks of the subdivision tests (meshSubdivision.test.ts)
\* ------------------------------------------------------------------------

\* edgeCount.get(key): the number of triangle sides with this edge key
edgeCount(indexArray, key) ==
    Cardinality({s \in 0..(Len(indexArray) - 1) : SlotKey(indexArray, s) = key})

\* verifyWatertightMesh(geometry).isWatertight: the geometry has an index and
\* every edge is used by exactly two triangles
verifyWatertightMesh(geometry) ==
    /\ geometry.hasIndex
    /\ \A s \in 0..(Len(geometry.index) - 1) :
          edgeCount(geometry.index, SlotKey(geometry.index, s)) = 2

\* Vertex v lies strictly between the end points a and b of an edge
\* (exactly: collinear, and its projection is inside the segment)
StrictlyBetween(v, a, b) ==
    LET edgeVec == VSub(b, a)
        vertVec == VSub(v, a)
    IN  /\ LengthSq(edgeVec) > 0
        /\ Cross(vertVec, edgeVec) = Zero3
        /\ Dot(vertVec, edgeVec) > 0
        /\ Dot(vertVec, edgeVec) < LengthSq(edgeVec)

\* findTJunctions(geometry): the pairs <<vertex, triangle side>> where the
\* vertex is not an end point of the side and lies strictly inside it
findTJunctions(geometry) ==
    LET indexArray == indexArrayOf(geometry)
        vertices == geometry.position
    IN  {<<vertIdx, s>> \in (0..(Len(vertices) - 1)) \X (0..(Len(indexArray) - 1)) :
            LET key == SlotKey(indexArray, s)
            IN  /\ vertIdx # key[1]
                /\ vertIdx # key[2]
                /\ StrictlyBetween(Vtx(vertices, vertIdx),
                                   Vtx(vertices, key[1]), Vtx(vertices, key[2]))}

\* ------------------------------------------------------------------------
\* Properties of subdivideGeometryLocally (under SpecSubdivide)
\* ------------------------------------------------------------------------

\* C1: subdividing a closed mesh (every edge shared by exactly two triangles)
\* returns a closed mesh.
C1_Watertight ==
    (subCalls >= 1 /\ verifyWatertightMesh(subInput)) => verifyWatertightMesh(subOutput)

\* A closed mesh was subdivided only in part: vertices were added and a
\* triangle of the input survives next to the split ones.
C1_Witness ==
    /\ subCalls >= 1
    /\ verifyWatertightMesh(subInput)
    /\ Grew(subInput, subOutput)
    /\ \E t \in 0..(TriangleCount(subInput) - 1), u \in 0..(TriangleCount(subOutput) - 1) :
          Tri(subInput.index, t) = Tri(subOutput.index, u)
    /\ verifyWatertightMesh(subOutput)

\* C2: after subdivision no vertex lies strictly between the two end points
\* of a triangle edge it is not an end point of.
C2_NoTJunctions ==
    (subCalls >= 1 /\ findTJunctions(subInput) = {}) => findTJunctions(subOutput) = {}

\* The inputs themselves are free of T-junctions.
InputsHaveNoTJunctions == subCalls = 0 => findTJunctions(subInput) = {}

\* No edge of the geometry meets the marking condition of the arguments:
\* longer than maxEdgeLength, and either its midpoint is inside the brush
\* sphere or it is longer than twice maxEdgeLength.
NoEdgeQualifies(geometry, args) ==
    \A s \in 0..(Len(indexArrayOf(geometry)) - 1) :
        LET key == SlotKey(indexArrayOf(geometry), s)
            a == Vtx(geometry.position, key[1])
            b == Vtx(geometry.position, key[2])
        IN  \/ DistanceTo(a, b) <= args.maxEdgeLength
            \/ /\ DistanceTo(Midpoint(a, b), args.point) >= args.radius
               /\ DistanceTo(a, b) <= 2 * args.maxEdgeLength

\* C6: when the result of subdivide(mesh, p, r, maxEdge) has no edge that
\* meets the marking condition, subdividing that result again with the same
\* arguments returns the same vertices and the same triangles.
C6_Idempotent ==
    (/\ subCalls >= 2
     /\ subPrev = <<subArgs>>
     /\ NoEdgeQualifies(subInput, subArgs))
    => (/\ subOutput.position = subInput.position
        /\ subOutput.index = indexArrayOf(subInput))

\* A first call added vertices, left no qualifying edge although an edge
\* longer than maxEdgeLength remains, and was repeated with the same arguments.
C6_Witness ==
    /\ subCalls = 2
    /\ subPrev = <<subArgs>>
    /\ NoEdgeQualifies(subInput, subArgs)
    /\ VertexCount(subInput) \notin {VertexCount(g) : g \in InputGeometries}
    /\ \E s \in 0..(Len(subInput.index) - 1) :
          LET key == SlotKey(subInput.index, s)
          IN  DistanceTo(Vtx(subInput.position, key[1]), Vtx(subInput.position, key[2]))
                  > subArgs.maxEdgeLength
    /\ subOutput.position = subInput.position

\* ------------------------------------------------------------------------
\* Properties of the stroke sample sculpt() (under SpecSculpt)
\* ------------------------------------------------------------------------

\* The displacement the last sample gave to vertex i of its geometry
Displacement(i) == VSub(meshGeometry.position[i], strokeGeometry.position[i])

\* The squared world distance of vertex i from the stroke point of the sample
DistanceSq(i) ==
    LengthSq(VSub(ToWorld(matrixWorld, strokeGeometry.position[i]), lastSample.point))

\* C5: the vertex count never decreases: subdivideGeometryLocally returns at
\* least as many vertices as it was given, and the mesh of a stroke has at
\* least as many vertices after a sample as before it.
C5_VertexCountMonotone ==
    [][/\ VertexCount(meshGeometry') >= VertexCount(meshGeometry)
       /\ VertexCount(subOutput') >= VertexCount(subInput')]_vars

\* A first sample subdivided and grew the mesh, a later throttled sample
\* deformed it, and the mesh still has the vertices of the subdivision.
C5_Witness ==
    /\ samples >= 2
    /\ lastSample.hit
    /\ ~lastSample.shouldSubdivide
    /\ lastModified
    /\ subCalls >= 1
    /\ Grew(subInput, subOutput)
    /\ VertexCount(meshGeometry) = VertexCount(subOutput)

\* C9: a push-tool sample with no previous point moves no vertex and returns
\* modified = false.
C9_PushWithoutHistory ==
    (lastSample.hit /\ lastSample.tool = "push" /\ lastSample.previous = NoPoint)
    => (/\ lastModified = FALSE
        /\ meshGeometry.position = strokeGeometry.position)

\* The first push sample of a stroke hit the mesh with vertices inside the
\* brush, and recorded its point for the next sample.
C9_Witness ==
    /\ lastSample.hit
    /\ lastSample.tool = "push"
    /\ lastSample.previous = NoPoint
    /\ \E i \in 1..VertexCount(strokeGeometry) : DistanceSq(i) < brushSize * brushSize
    /\ pushToolLastPoint = lastSample.point
    /\ lastModified = FALSE

\* C10: in a sample, a vertex at distance exactly brushSize from the stroke
\* point is not displaced, and a vertex at distance 0 is displaced at least
\* as far as every other vertex.
C10_FalloffBoundary ==
    lastSample.hit =>
        \A i \in 1..VertexCount(strokeGeometry) :
            /\ DistanceSq(i) = brushSize * brushSize => Displacement(i) = Zero3
            /\ DistanceSq(i) = 0 =>
                  \A j \in 1..VertexCount(strokeGeometry) :
                      LengthSq(Displacement(j)) <= LengthSq(Displacement(i))

\* A sample with a vertex exactly on the brush sphere, a displaced vertex at
\* the stroke point and a vertex in between that is displaced less.
C10_Witness ==
    /\ lastSample.hit
    /\ \E i, j, k \in 1..VertexCount(strokeGeometry) :
          /\ DistanceSq(i) = brushSize * brushSize
          /\ Displacement(i) = Zero3
          /\ DistanceSq(j) = 0
          /\ Displacement(j) # Zero3
          /\ DistanceSq(k) < brushSize * brushSize
          /\ Displacement(k) # Zero3
          /\ LengthSq(Displacement(k)) < LengthSq(Displacement(j))

\* ------------------------------------------------------------------------
\* Properties of the mirror points (under SpecSymmetry)
\* ------------------------------------------------------------------------

ActiveAxes == {a \in {"x", "y", "z"} : symmetryAxes[a]}

\* The subsets of axes in the order original, x, y, z, xy, xz, yz, xyz
AxisOrder == <<{}, {"x"}, {"y"}, {"z"}, {"x", "y"}, {"x", "z"}, {"y", "z"}, {"x", "y", "z"}>>

\* AxisOrder restricted to the active axes
ActiveOrder == SelectSeq(AxisOrder, LAMBDA axes : axes \subseteq ActiveAxes)

\* v with exactly the coordinates of the axes in the set negated
Negated(v, axes) ==
    <<IF "x" \in axes THEN -v[1] ELSE v[1],
      IF "y" \in axes THEN -v[2] ELSE v[2],
      IF "z" \in axes THEN -v[3] ELSE v[3]>>

\* C7: for every point and every setting of the three axis flags the list has
\* exactly 2^n entries, n the number of active axes.
C7_SymmetryCount ==
    mirrorPoints # <<>> => Len(mirrorPoints) = 2 ^ Cardinality(ActiveAxes)

\* The list was built with all three axes active for a point off the three
\* coordinate planes of the mesh: eight entries at eight different places.
C7_Witness ==
    /\ mirrorPoints # <<>>
    /\ Cardinality(ActiveAxes) = 3
    /\ Len(mirrorPoints) = 8
    /\ \A i, j \in 1..8 : i # j => mirrorPoints[i].point # mirrorPoints[j].point

\* C8: the list holds the original pair first, then the mirrors for x, y, z,
\* then for xy, xz, yz, then for xyz, restricted to the active axes; each
\* entry is the original with exactly the coordinates of its axes negated,
\* in the point (in the local space of the mesh) and in the normal.
C8_SymmetryOrder ==
    mirrorPoints # <<>> =>
        /\ Len(mirrorPoints) = Len(ActiveOrder)
        /\ mirrorPoints[1] = mirrorInput
        /\ \A k \in 1..Len(mirrorPoints) :
              /\ ToLocal(matrixWorld, mirrorPoints[k].point)
                    = Negated(ToLocal(matrixWorld, mirrorInput.point), ActiveOrder[k])
              /\ mirrorPoints[k].normal = Negated(mirrorInput.normal, ActiveOrder[k])

\* The list was built on a mesh away from the world origin with two axes
\* active, for a point and a normal with no zero coordinate on those axes.
C8_Witness ==
    /\ mirrorPoints # <<>>
    /\ matrixWorld # Zero3
    /\ ActiveAxes = {"x", "z"}
    /\ Len(mirrorPoints) = 4
    /\ ToLocal(matrixWorld, mirrorInput.point)[1] # 0
    /\ ToLocal(matrixWorld, mirrorInput.point)[3] # 0
    /\ mirrorInput.normal[1] # 0
    /\ mirrorInput.normal[3] # 0
    /\ ToLocal(matrixWorld, mirrorPoints[4].point)
          = Negated(ToLocal(matrixWorld, mirrorInput.point), {"x", "z"})

\* ------------------------------------------------------------------------
\* Properties of the version guard (under SpecVersion)
\* ------------------------------------------------------------------------

\* Sample g completes in this step and hands its result to onGeometryUpdate
CompletesCalling(g) ==
    /\ frames[g].pc = "started"
    /\ frames'[g].pc = "done"
    /\ frames'[g].called

\* C3: when two samples started from the same version and the result of the
\* first was accepted, the result of the second is rejected by
\* onGeometryUpdate and the current mesh keeps the vertex count it had after
\* the first sample.
C3_VersionGuardRejection ==
    [][\A f, g \in FrameIds :
          (/\ f # g
           /\ frames[f].pc = "done" /\ frames[f].called /\ frames[f].accepted
           /\ frames[g].startingVersion = frames[f].startingVersion
           /\ CompletesCalling(g))
          => (/\ ~frames'[g].accepted
              /\ geometryVersionRef' = geometryVersionRef
              /\ VertexCount(arena'[geometryRef']) = VertexCount(arena[geometryRef]))]_vars

\* Two samples started from version 0; the first subdivided the mesh and was
\* accepted, the second was rejected, and the mesh has the vertices of the
\* subdivision.
C3_Witness ==
    \E f, g \in FrameIds :
        /\ f # g
        /\ frames[f].pc = "done" /\ frames[f].called /\ frames[f].accepted /\ frames[f].grew
        /\ frames[g].pc = "done" /\ frames[g].called /\ ~frames[g].accepted
        /\ frames[g].startingVersion = frames[f].startingVersion
        /\ geometryVersionRef = frames[f].startingVersion + 1
        /\ VertexCount(arena[geometryRef]) > VertexCount(arena[1])

\* C4: a sample that completes when the version is no longer the one it
\* started from is discarded without being applied: the current mesh is the
\* same object with the same triangles and the same vertex positions as
\* immediately before the sample ran, and the sample ran its stroke once.
C4_StaleSampleNotApplied ==
    [][\A g \in FrameIds :
          (/\ frames[g].pc = "started"
           /\ frames'[g].pc = "done"
           /\ frames[g].startingVersion # geometryVersionRef)
          => (/\ ~frames'[g].accepted
              /\ geometryRef' = geometryRef
              /\ arena'[geometryRef'].index = arena[geometryRef].index
              /\ arena'[geometryRef'].position = arena[geometryRef].position
              /\ frames'[g].strokes <= 1)]_vars

\* ------------------------------------------------------------------------
\* Properties of the stroke with symmetry (under SpecSymmetricSculpt)
\* ------------------------------------------------------------------------

\* Every vertex of the geometry has its mirror image about the axes among
\* the vertices
SymmetricAbout(geometry, axes) ==
    \A i \in 1..VertexCount(geometry) :
        \E j \in 1..VertexCount(geometry) :
            geometry.position[j] = Negated(geometry.position[i], axes)

\* 0.02, the tolerance of the comparison of mirrored displacements
SymmetryTolerance == Unit \div 50

\* C11: for a mesh symmetric about the active mirror planes, after one
\* deformation with the mirror points every displaced vertex off the planes
\* has a mirrored vertex that is displaced too, by the displacement of the
\* vertex with the coordinates of the active axes negated (within 0.02).
C11_SymmetricDeformation ==
    (lastSample.hit /\ mirrorPoints # <<>> /\ SymmetricAbout(strokeGeometry, ActiveAxes)) =>
        \A i \in 1..VertexCount(strokeGeometry) :
            (/\ Displacement(i) # Zero3
             /\ Negated(strokeGeometry.position[i], ActiveAxes) # strokeGeometry.position[i])
            => \E j \in 1..VertexCount(strokeGeometry) :
                  /\ strokeGeometry.position[j]
                        = Negated(strokeGeometry.position[i], ActiveAxes)
                  /\ Displacement(j) # Zero3
                  /\ LengthSq(VSub(Displacement(j), Negated(Displacement(i), ActiveAxes)))
                        <= SymmetryTolerance * SymmetryTolerance

\* ------------------------------------------------------------------------
\* Properties of the phases of one sample (under SpecSculpt)
\* ------------------------------------------------------------------------

\* The vertex the deformation loop of the last sample leaves for vertex i
\* of geometry
DeformedInLastSample(geometry, i) ==
    DeformVertex(geometry.position[i], matrixWorld, lastSample.point, strokeNormal,
                 lastSample.tool, brushSize, brushStrength, lastSample.previous,
                 lastSample.shift)

\* C12: in a sample whose subdivision added vertices the deformation pass
\* reads the positions the subdivision returned and runs over all its
\* vertices, the new ones included.
C12_SubdivisionBeforeDeformation ==
    (lastSample.hit /\ lastSample.shouldSubdivide /\ Grew(subInput, subOutput)) =>
        /\ strokeGeometry = subOutput
        /\ VertexCount(meshGeometry) = VertexCount(subOutput)
        /\ meshGeometry.index = subOutput.index
        /\ \A i \in 1..VertexCount(subOutput) :
              meshGeometry.position[i] = DeformedInLastSample(subOutput, i)

\* A sample subdivided the mesh and displaced a vertex the subdivision
\* created.
C12_Witness ==
    /\ lastSample.hit
    /\ lastSample.shouldSubdivide
    /\ Grew(subInput, subOutput)
    /\ \E i \in (VertexCount(subInput) + 1)..VertexCount(subOutput) :
          /\ meshGeometry.position[i] # subOutput.position[i]
          /\ meshGeometry.position[i] = DeformedInLastSample(subOutput, i)

\* The last sample passed the ray cast and called subdivideGeometryLocally
RanSubdivider == lastSample.hit /\ lastSample.shouldSubdivide

\* C13: a sample that runs the subdivider comes more than 100 ms after the
\* previous sample that ran it, so no two runs of the subdivider are within
\* 100 ms of each other.
C13_SubdivisionThrottle ==
    [][(samples' = samples + 1 /\ RanSubdivider /\ RanSubdivider')
          => now' - now > SubdivisionThrottleMs]_vars

\* The part of the throttle the code keeps: a sample that runs the
\* subdivider comes more than 100 ms after the previous sample whose
\* subdivision added vertices.
SubdivisionThrottleAfterGrowth ==
    [][(samples' = samples + 1 /\ RanSubdivider /\ Grew(subInput, subOutput)
            /\ RanSubdivider')
          => now' - now > SubdivisionThrottleMs]_vars

\* ------------------------------------------------------------------------
\* Properties of the strokes of the scene object (under SpecPointer)
\* ------------------------------------------------------------------------

\* C14: the first sample of a push stroke, the first sculpt() call after
\* the button went down, sees no previous push point, whatever tool
\* changes and pointer events came before.
C14_PushHistoryReset ==
    (strokeSamples = 1 /\ lastSample.entered /\ lastSample.tool = "push")
        => lastSample.previous = NoPoint

\* ------------------------------------------------------------------------
\* Properties of the idle scene object (under SpecHover and SpecPointer)
\* ------------------------------------------------------------------------

\* C15: while isMouseDown is false no step, frame callback or pointer
\* event, changes the vertices or the triangle list of the mesh.
C15_IdleNoWork ==
    [][~isMouseDown => meshGeometry' = meshGeometry]_vars

\* ------------------------------------------------------------------------
\* Properties of the brush settings (under SpecConfiguration)
\* ------------------------------------------------------------------------

\* C16: a sample with brushSize <= 0 or brushStrength <= 0 leaves every
\* vertex where the deformation pass found it and reports modified = false.
C16_InvalidConfigurationNoOp ==
    (lastSample.hit /\ (brushSize <= 0 \/ brushStrength <= 0)) =>
        /\ meshGeometry.position = strokeGeometry.position
        /\ lastModified = FALSE

\* The half the code keeps: with brushSize <= 0 no vertex is inside the
\* brush
InvalidBrushSizeNoOp ==
    (lastSample.hit /\ brushSize <= 0) =>
        /\ meshGeometry.position = strokeGeometry.position
        /\ lastModified = FALSE

\* ------------------------------------------------------------------------
\* Properties of the objects subdivideGeometryLocally touches (under
\* SpecSubdivide)
\* ------------------------------------------------------------------------

\* C17: a call leaves every geometry object that existed before it, its
\* argument included, with the vertices and triangles it had, whether or
\* not an edge was split; the result is another object.
C17_SubdivideLeavesInput ==
    [][subCalls' = subCalls + 1 =>
          /\ geometryRef' # geometryRef
          /\ Len(arena') >= Len(arena)
          /\ \A id \in 1..Len(arena) : arena'[id] = arena[id]
          /\ arena'[geometryRef] = subInput'
          /\ arena'[geometryRef'] = subOutput']_vars

\* A call split edges: the object passed in still holds the smaller mesh,
\* the returned object the larger one.
C17_Witness ==
    /\ subCalls > 0
    /\ Grew(subInput, subOutput)
    /\ arena[geometryRef] = subOutput
    /\ \E id \in 1..Len(arena) :
          /\ id # geometryRef
          /\ arena[id] = subInput
          /\ VertexCount(arena[id]) < VertexCount(arena[geometryRef])

\* ------------------------------------------------------------------------
\* Properties of throttled samples (under SpecSculpt)
\* ------------------------------------------------------------------------

\* C18: a sample that hits the mesh while the subdivision is throttled
\* leaves the vertex count and the triangle list the mesh had before it.
C18_ThrottledSampleOnlyDeforms ==
    [][(samples' = samples + 1 /\ lastSample'.hit /\ ~lastSample'.shouldSubdivide) =>
          /\ VertexCount(meshGeometry') = VertexCount(meshGeometry)
          /\ meshGeometry'.index = meshGeometry.index
          /\ UNCHANGED subVars]_vars

\* A throttled sample displaced vertices of a mesh that the sample before
\* it had subdivided: the mesh still has the vertices of the subdivision.
C18_Witness ==
    /\ samples = 2
    /\ lastSample.hit
    /\ ~lastSample.shouldSubdivide
    /\ lastModified
    /\ Grew(subInput, subOutput)
    /\ VertexCount(meshGeometry) = VertexCount(subOutput)
    /\ meshGeometry.index = subOutput.index
    /\ meshGeometry.position # subOutput.position

\* ------------------------------------------------------------------------
\* Properties of the marked edges (under SpecPropagation and SpecSubdivide)
\* ------------------------------------------------------------------------

\* The edges the last call marked, after the propagation
MarkedInLastCall ==
    edgesToSubdivideOf(subInput.position, indexArrayOf(subInput), subArgs.point,
                       subArgs.radius, subArgs.maxEdgeLength)

\* Number of marked edges of triangle t of the input of the last call
MarkedInTriangle(t) ==
    MarkedCount(MarkedInLastCall, EdgeKeys(Tri(indexArrayOf(subInput), t)))

\* C19: when the propagation loop of a call has finished, no triangle of
\* the input has exactly two of its three edges marked.
C19_PropagationClosure ==
    subCalls > 0 =>
        \A t \in 0..((Len(indexArrayOf(subInput)) \div 3) - 1) : MarkedInTriangle(t) # 2

\* The sides a-m and m-b of the vertex m created for the marked edge a-b
\* replace the side a-b in every triangle that had it
MidpointShared(edge, m) ==
    /\ edgeCount(subOutput.index, edge) = 0
    /\ edgeCount(subOutput.index, makeEdgeKey(edge[1], m))
          = edgeCount(indexArrayOf(subInput), edge)
    /\ edgeCount(subOutput.index, makeEdgeKey(m, edge[2]))
          = edgeCount(indexArrayOf(subInput), edge)

\* C20: the output of a call has the input's vertices at their indices,
\* followed by exactly one vertex per marked edge, and every triangle that
\* had a marked edge uses the vertex of that edge.
C20_OneVertexPerMarkedEdge ==
    subCalls > 0 =>
        /\ VertexCount(subOutput) = VertexCount(subInput) + Len(MarkedInLastCall)
        /\ \A i \in 1..VertexCount(subInput) :
              subOutput.position[i] = subInput.position[i]
        /\ \A k \in 1..(VertexCount(subOutput) - VertexCount(subInput)) :
              MidpointShared(MarkedInLastCall[k], VertexCount(subInput) + k - 1)

\* A call marked an edge that two triangles share and gave both the one
\* vertex created for it.
C20_Witness ==
    /\ subCalls > 0
    /\ Grew(subInput, subOutput)
    /\ \E k \in 1..(VertexCount(subOutput) - VertexCount(subInput)) :
          /\ edgeCount(indexArrayOf(subInput), MarkedInLastCall[k]) = 2
          /\ MidpointShared(MarkedInLastCall[k], VertexCount(subInput) + k - 1)

\* ------------------------------------------------------------------------
\* Properties of the winding (under SpecPropagation)
\* ------------------------------------------------------------------------

\* Side e (0: 01, 1: 12, 2: 20) of triangle t as the pair of its corners in
\* the order of the triangle
DirectedSide(indexArray, s) ==
    LET tri == Tri(indexArray, s \div 3)
    IN  <<tri[(s % 3) + 1], tri[((s + 1) % 3) + 1]>>

\* Number of triangles that run from a to b along one of their sides
DirectedCount(indexArray, a, b) ==
    Cardinality({s \in 0..(Len(indexArray) - 1) : DirectedSide(indexArray, s) = <<a, b>>})

\* No two triangles run along a side in the same direction
ConsistentlyWound(indexArray) ==
    \A s \in 0..(Len(indexArray) - 1) :
        DirectedCount(indexArray, DirectedSide(indexArray, s)[1],
                      DirectedSide(indexArray, s)[2]) = 1

\* The output runs along side s of the input, or along its two halves, in
\* the direction of the input and as often as the input does
SideKeepsDirection(s) ==
    LET indexArray == indexArrayOf(subInput)
        a == DirectedSide(indexArray, s)[1]
        b == DirectedSide(indexArray, s)[2]
        key == makeEdgeKey(a, b)
        m == edgeMidpoints(VertexCount(subInput), MarkedInLastCall, key)
    IN  IF InSeq(MarkedInLastCall, key)
        THEN /\ DirectedCount(subOutput.index, a, m) = DirectedCount(indexArray, a, b)
             /\ DirectedCount(subOutput.index, m, b) = DirectedCount(indexArray, a, b)
        ELSE DirectedCount(subOutput.index, a, b) = DirectedCount(indexArray, a, b)

\* C21: the triangles that replace a triangle run along its sides in its
\* direction, and an input in which no two triangles run along a side in
\* the same direction gives an output with the same property.
C21_WindingPreserved ==
    subCalls > 0 =>
        /\ \A s \in 0..(Len(indexArrayOf(subInput)) - 1) : SideKeepsDirection(s)
        /\ ConsistentlyWound(indexArrayOf(subInput)) => ConsistentlyWound(subOutput.index)

\* The pattern of triangle t of the input of the last call
PatternInLastCall(t) ==
    PatternOf(MarkedInLastCall, EdgeKeys(Tri(indexArrayOf(subInput), t)))

\* A call on a consistently wound input replaced one triangle by the three
\* of case 5 and another by the four of case 7, and the output is
\* consistently wound.
C21_Witness ==
    /\ subCalls > 0
    /\ ConsistentlyWound(indexArrayOf(subInput))
    /\ \E t \in 0..((Len(indexArrayOf(subInput)) \div 3) - 1) : PatternInLastCall(t) = 5
    /\ \E t \in 0..((Len(indexArrayOf(subInput)) \div 3) - 1) : PatternInLastCall(t) = 7
    /\ ConsistentlyWound(subOutput.index)

\* ------------------------------------------------------------------------
\* Properties of the index buffer (under SpecSculpt)
\* ------------------------------------------------------------------------

\* The index array lists whole triangles with corners among the vertices
ValidIndex(geometry) ==
    /\ Len(indexArrayOf(geometry)) % 3 = 0
    /\ \A k \in 1..Len(indexArrayOf(geometry)) :
          /\ indexArrayOf(geometry)[k] >= 0
          /\ indexArrayOf(geometry)[k] < VertexCount(geometry)

\* C22: whatever samples subdivided and deformed the mesh, its triangle
\* list has a length that is a multiple of 3 and every index in it is less
\* than the number of vertices; the same holds for the geometry each call
\* of the subdivider returned.
C22_IndexValidity ==
    /\ ValidIndex(meshGeometry)
    /\ ValidIndex(subOutput)

\* Two samples worked on the mesh: one subdivided it, the last one
\* displaced vertices of the subdivided mesh.
C22_Witness ==
    /\ samples = 2
    /\ subCalls > 0
    /\ Grew(subInput, subOutput)
    /\ lastModified
    /\ VertexCount(meshGeometry) = VertexCount(subOutput)
    /\ ValidIndex(meshGeometry)

\* ------------------------------------------------------------------------
\* The invert modifier (under SpecSculpt)
\* ------------------------------------------------------------------------

\* The displacement the deformation loop of the last sample gives vertex i
\* of the geometry it worked on with the shift key in the given state
DisplacementWithShift(i, shift) ==
    VSub(DeformVertex(strokeGeometry.position[i], matrixWorld, lastSample.point,
                      strokeNormal, lastSample.tool, brushSize, brushStrength,
                      lastSample.previous, shift),
         strokeGeometry.position[i])

\* C23: under each of the tools add, subtract and push the displacement a
\* sample gives a vertex is the exact negation of the displacement the same
\* sample gives it with the shift key in the other state.
C23_InvertNegatesDisplacement ==
    lastSample.hit =>
        \A i \in 1..VertexCount(strokeGeometry) :
            /\ VSub(meshGeometry.position[i], strokeGeometry.position[i])
                   = DisplacementWithShift(i, lastSample.shift)
            /\ DisplacementWithShift(i, lastSample.shift)
                   = VNeg(DisplacementWithShift(i, ~lastSample.shift))

\* A push sample with the shift key held displaced a vertex.
C23_Witness ==
    /\ lastSample.hit
    /\ lastSample.shift
    /\ lastSample.tool = "push"
    /\ \E i \in 1..VertexCount(strokeGeometry) :
          /\ meshGeometry.position[i] # strokeGeometry.position[i]
          /\ VSub(meshGeometry.position[i], strokeGeometry.position[i])
                 = VNeg(DisplacementWithShift(i, FALSE))

\* ------------------------------------------------------------------------
\* The push direction at the mirror points (under SpecSymmetricSculpt)
\* ------------------------------------------------------------------------

\* The last sample was a push sample with a previous point that hit the mesh
PushDragInLastSample ==
    /\ lastSample.hit
    /\ lastSample.tool = "push"
    /\ lastSample.previous # NoPoint
    /\ mirrorPoints # <<>>

\* The direction the deformation loop of the last sample takes for the k-th
\* mirror point, before it is normalized
DirectionAtMirror(k) ==
    MirroredMovement(matrixWorld, lastSample.point, lastSample.previous,
                     mirrorPoints[k].point, symmetryAxes)

\* C24: at every mirrored point of a push sample the drag direction is the
\* drag of the primary point (point minus previous point) with the
\* coordinates of the mirrored axes of that combination negated, also when
\* the stroke point lies on a mirror plane.
C24_MirroredPushDirection ==
    PushDragInLastSample =>
        \A k \in 2..Len(mirrorPoints) :
            DirectionAtMirror(k)
                = Negated(VSub(lastSample.point, lastSample.previous), ActiveOrder[k])

\* The same for an untranslated mesh and a stroke point off the planes of
\* the active axes
MirroredPushDirectionOffPlane ==
    (/\ PushDragInLastSample
     /\ matrixWorld = Zero3
     /\ \A a \in ActiveAxes :
           ToLocal(matrixWorld, lastSample.point)[IF a = "x" THEN 1 ELSE IF a = "y" THEN 2 ELSE 3]
               # 0) =>
        \A k \in 2..Len(mirrorPoints) :
            DirectionAtMirror(k)
                = Negated(VSub(lastSample.point, lastSample.previous), ActiveOrder[k])

\* ------------------------------------------------------------------------
\* Subdivision under symmetry (under SpecLocalSymmetricSculpt)
\* ------------------------------------------------------------------------

\* The triangles of a geometry as sets of corner positions
TrianglePositions(geometry) ==
    {{geometry.position[Tri(indexArrayOf(geometry), t)[c] + 1] : c \in 1..3} :
        t \in 0..(TriangleCount([index |-> indexArrayOf(geometry)]) - 1)}

\* The mirror image of the triangles of a geometry in the plane of an axis is
\* the same set of triangles
SymmetricTopology(geometry, axes) ==
    \A a \in axes :
        {{Negated(v, {a}) : v \in triangle} : triangle \in TrianglePositions(geometry)}
            = TrianglePositions(geometry)

\* C25: when symmetry axes are active and a sample subdivides, a mesh whose
\* triangles are symmetric about the active mirror planes before the sample
\* has symmetric triangles after the subdivision phase of the sample.
C25_SymmetricSubdivision ==
    (/\ lastSample.hit
     /\ lastSample.shouldSubdivide
     /\ ActiveAxes # {}
     /\ SymmetricTopology(subInput, ActiveAxes)) => SymmetricTopology(strokeGeometry, ActiveAxes)

\* ------------------------------------------------------------------------
\* Overlapping mirror points (under SpecSymmetricSculpt)
\* ------------------------------------------------------------------------

\* The displacement the pass of the k-th mirror point gives vertex i when it
\* reads the position the vertex has at the start of the deformation
ContributionOf(i, k) ==
    VSub(DeformVertexForMirror(strokeGeometry.position[i], matrixWorld, lastSample.point,
                               mirrorPoints[k], k = 1, lastSample.tool, brushSize,
                               brushStrength, lastSample.previous, lastSample.shift,
                               symmetryAxes),
         strokeGeometry.position[i])

RECURSIVE SumOfContributions(_, _)
\* The sum of the contributions of the first k mirror points to vertex i
SumOfContributions(i, k) ==
    IF k = 0 THEN Zero3 ELSE VAdd(SumOfContributions(i, k - 1), ContributionOf(i, k))

\* 0.01, ten times the resolution of a coordinate
AdditivityTolerance == Unit \div 100

\* C26: the displacement of every vertex in a sample with several mirror
\* points is the sum of the displacements each point gives the vertex from
\* its position at the start of the deformation (within 0.01), whatever the
\* order of the points.
C26_AdditiveDeformation ==
    (lastSample.hit /\ mirrorPoints # <<>>) =>
        \A i \in 1..VertexCount(strokeGeometry) :
            LengthSq(VSub(Displacement(i), SumOfContributions(i, Len(mirrorPoints))))
                <= AdditivityTolerance * AdditivityTolerance

\* ------------------------------------------------------------------------
\* The geometry version counter (under SpecVersion)
\* ------------------------------------------------------------------------

\* Frame f completes its sample in this step
Completes(f) == frames[f].pc = "started" /\ frames'[f].pc = "done"

\* C27: the geometry version never decreases; a step in which a sample's
\* result is accepted increases it by exactly 1, and every other step, a
\* rejected result included, leaves it unchanged.
C27_VersionMonotone ==
    [][/\ geometryVersionRef' >= geometryVersionRef
       /\ \A f \in FrameIds :
             Completes(f) =>
                 geometryVersionRef' = IF frames'[f].accepted THEN geometryVersionRef + 1
                                       ELSE geometryVersionRef
       /\ (\A f \in FrameIds : ~Completes(f)) => geometryVersionRef' = geometryVersionRef
      ]_vars

\* The version is 2 after two accepted results, and the last sample of the
\* other frame, started from an older version, was rejected.
C27_Witness ==
    /\ geometryVersionRef = 2
    /\ \E f, g \in FrameIds :
          /\ f # g
          /\ frames[f].pc = "done" /\ frames[f].called /\ ~frames[f].accepted
          /\ frames[f].startingVersion < geometryVersionRef
          /\ frames[g].pc = "done" /\ frames[g].accepted

\* ------------------------------------------------------------------------
\* Samples in flight (under SpecVersion)
\* ------------------------------------------------------------------------

\* The frame callbacks whose sculpt() call has started and not returned
InFlight == {f \in FrameIds : frames[f].pc = "started"}

\* C28: a sculpt() call made while another sample is in flight returns at
\* its entry, so at most one stroke sample is in flight at any time.
C28_SingleSampleInFlight == Cardinality(InFlight) <= 1

\* The flag of the hook with the in-flight test is clear whenever no call of
\* sculpt() is running
FlagClearBetweenCalls == isProcessing = FALSE

\* ------------------------------------------------------------------------
\* Release of the in-flight flag (under SpecExternalMesh)
\* ------------------------------------------------------------------------

\* This step is a call of the component's sculpt() that passes the guard and
\* returns
SampleReturns ==
    /\ strokeSamples' = strokeSamples + 1
    /\ lastSample'.entered
    /\ ~(~hasPositions(meshGeometry) /\ lastSample'.hit /\ lastSample'.shouldSubdivide)

UndoOrRedoAtTheEnd ==
    /\ operations' = operations + 1
    /\ \/ lastOperation' = "handleUndo" /\ currentIndexRef <= 0
       \/ lastOperation' = "handleRedo" /\ currentIndexRef = Len(history) - 1

\* C30: after any sequence of saveState, handleUndo, handleRedo and
\* clearHistory the index is between -1 and history.length - 1 and the
\* history has at most maxHistorySize states; undo at index 0 or on an empty
\* history and redo at the last index change neither history, index nor
\* scene.
C30_HistoryBounds ==
    /\ [](/\ -1 <= currentIndexRef
          /\ currentIndexRef <= Len(history) - 1
          /\ Len(history) <= maxHistorySize)
    /\ [][UndoOrRedoAtTheEnd =>
             /\ history' = history
             /\ currentIndexRef' = currentIndexRef
             /\ sceneState' = sceneState
             /\ restored' = FALSE]_vars

\* The history is full with different states, the index was taken back to
\* 0, and one more undo was called there and restored nothing.
C30_Witness ==
    /\ Len(history) = maxHistorySize
    /\ history[1] # history[2]
    /\ currentIndexRef = 0
    /\ lastOperation = "handleUndo"
    /\ restored = FALSE

====
